---- MODULE Spec2Model ----
(***************************************************************************)
(* Wallet / transaction cache of the crypto wallet tracker backend:        *)
(* WalletService (getBalance, getTransactions, syncTransactionsInBackground)*)
(* and TransactionService (getTransactionByHash, syncTransactions,         *)
(* cacheTransaction) over the Prisma store (Wallet, Transaction tables).   *)
(*                                                                         *)
(* Every store access is one atomic step; the RPC / indexer calls and the  *)
(* local computation between two store accesses are folded into the step   *)
(* that follows them (they read no shared state).                          *)
(***************************************************************************)
EXTENDS Integers, Sequences, FiniteSets, TLC

VARIABLES
    wallets,        \* Wallet table: the set of rows [id, address]
    transactions,   \* Transaction table: the set of rows
    tasks,          \* the in-flight asynchronous operations, by slot
    callsLeft,      \* number of public calls still to be made
    lastResponse,   \* the operation that completed in the last step, if any
    backgroundSynced,   \* <<address, chainId, hash>> written by a completed,
                        \* fully successful background sync of a new wallet
    pendingTokenWrites, \* un-awaited cacheTokenInfo promises
    version         \* which TransactionService source is deployed

vars == <<wallets, transactions, tasks, callsLeft, lastResponse,
          backgroundSynced, pendingTokenWrites, version>>

----------------------------------------------------------------------------
(* Bounds of the model *)

MaxCalls == 2    \* public calls in one run
MaxListCalls == 3    \* transaction-list requests in one run of SpecList
MaxTasks == 2    \* operations in flight at the same time

(* Program constants *)
Sepolia == 11155111
Mainnet == 1
DefaultDecimals == 18

ChainIds == {Mainnet, Sepolia}

----------------------------------------------------------------------------
(* Optional values: undefined / null is the empty set *)

None == {}
Some(v) == {v}
IsSome(o) == o # {}
TheValue(o) == CHOOSE v \in o : TRUE

----------------------------------------------------------------------------
(* Strings the model distinguishes.  An address has a checksummed          *)
(* (mixed-case) spelling and a lowercase spelling.                         *)

AddrA == "0xAA"
AddrB == "0xBB"
TokenContract == "0xT0"
InvalidAddress == "invalid-address"

\* String.prototype.toLowerCase on the modelled strings
toLowerCase(s) ==
    CASE s = "0xAA" -> "0xaa"
      [] s = "0xBB" -> "0xbb"
      [] s = "0xT0" -> "0xt0"
      [] OTHER -> s

\* ethers.isAddress
isAddress(s) == s \in {"0xAA", "0xaa", "0xBB", "0xbb", "0xT0", "0xt0"}

\* ethers.getAddress: the checksummed spelling; throws on a malformed one
getAddressOk(s) == isAddress(s)
getAddress(s) ==
    CASE s \in {"0xAA", "0xaa"} -> "0xAA"
      [] s \in {"0xBB", "0xbb"} -> "0xBB"
      [] s \in {"0xT0", "0xt0"} -> "0xT0"
      [] OTHER -> s

\* BigInt(decimal string) for the gas strings of the modelled chain
BigIntOfString(s) ==
    CASE s = "21000" -> 21000
      [] s = "20" -> 20
      [] s = "0" -> 0
      [] OTHER -> 0

\* JavaScript truthiness of a string / of a number
TruthyString(s) == s # ""
TruthyNumber(n) == n # 0

----------------------------------------------------------------------------
(* The chain the provider answers from (static; the provider may still     *)
(* fail or time out on any single call).                                   *)

Hashes == {"h1", "h2"}
UnknownHash == "h0"

TRANSFER_EVENT_SIGNATURE == "0xddf252ad"
OtherEventSignature == "0x8c5be1e5"

\* 32-byte topics holding a left-padded address
TopicA == "0x000000aa"
TopicB == "0x000000bb"

\* fromHex.slice(-40) after dropping the 0x prefix, then '0x' + ...
Low20(topic) ==
    CASE topic = "0x000000aa" -> "0xaa"
      [] topic = "0x000000bb" -> "0xbb"
      [] OTHER -> "0x??"

\* h1 is an ERC-20 transfer of 1500000 raw units (0x16e360), h2 a plain
\* value transfer in the other direction.
\* a contract creation sent by AddrA: it has no receiver (tx.to is null)
CreationHash == "h0"
ContractCreation ==
    [hash |-> CreationHash, from |-> AddrA, to |-> "", value |-> "0.0",
     blockNumber |-> 0, gasUsed |-> "21000", gasPrice |-> "20",
     timestamp |-> 0, receiptStatus |-> 1, isError |-> "0", logs |-> << >>]

ChainTx(h) ==
    IF h = CreationHash THEN ContractCreation
    ELSE IF h = "h1"
    THEN [hash |-> "h1", from |-> AddrA, to |-> AddrB, value |-> "1.0",
          blockNumber |-> 10, gasUsed |-> "21000", gasPrice |-> "20",
          timestamp |-> 2000, receiptStatus |-> 1, isError |-> "0",
          logs |-> << [address |-> "0xC0",
                       topics |-> <<OtherEventSignature, TopicA, TopicB>>,
                       data |-> <<1>>],
                      [address |-> TokenContract,
                       topics |-> <<TRANSFER_EVENT_SIGNATURE, TopicA, TopicB>>,
                       data |-> <<1, 6, 14, 3, 6, 0>>] >>]
    ELSE [hash |-> "h2", from |-> AddrB, to |-> AddrA, value |-> "0.5",
          blockNumber |-> 5, gasUsed |-> "21000", gasPrice |-> "20",
          timestamp |-> 1000, receiptStatus |-> 1, isError |-> "0",
          logs |-> << >>]

\* which transactions exist on which chain (h1 exists on both)
OnChain(chainId) == IF chainId = Sepolia THEN {"h1", "h2"} ELSE {"h1"}

\* provider.getBlockNumber(): the block of the newest transaction
CurrentBlock == ChainTx("h1").blockNumber

\* What a block scan walks: the provider's current block number and the
\* block each transaction was mined in (-1: not on this chain).
ChainWorld(chainId) ==
    [currentBlock |-> CurrentBlock,
     creationBlock |-> -1,
     blockOf |-> [h \in Hashes |-> IF h \in OnChain(chainId)
                                   THEN ChainTx(h).blockNumber ELSE -1]]

\* provider.getBlock(n, true).transactions
BlockTransactions(world, n) ==
    (IF world.creationBlock = n THEN <<CreationHash>> ELSE << >>)
        \o SelectSeq(<<"h1", "h2">>, LAMBDA h : world.blockOf[h] = n)

BlockTimestamp(n) == n * 200

\* ERC-20 metadata of the token contract
TokenMeta == [name |-> "Token", symbol |-> "TKN", decimals |-> 6]

\* what name(), symbol() and decimals() of a contract return when they
\* succeed; the other contract has an empty name and no decimal places
ContractMeta(contractAddress) ==
    IF contractAddress = TokenContract THEN TokenMeta
    ELSE [name |-> "", symbol |-> "C0", decimals |-> 0]

----------------------------------------------------------------------------
(* Decimal strings are sequences of one-character strings.                 *)

DigitChar(d) ==
    CASE d = 0 -> "0" [] d = 1 -> "1" [] d = 2 -> "2" [] d = 3 -> "3"
      [] d = 4 -> "4" [] d = 5 -> "5" [] d = 6 -> "6" [] d = 7 -> "7"
      [] d = 8 -> "8" [] OTHER -> "9"

RECURSIVE BigIntToString(_)
\* bigint.toString()
BigIntToString(n) ==
    IF n < 10 THEN <<DigitChar(n)>>
    ELSE BigIntToString(n \div 10) \o <<DigitChar(n % 10)>>

RECURSIVE BigIntOfHex(_)
\* BigInt('0x...') of a sequence of hex digits
BigIntOfHex(ds) ==
    IF ds = << >> THEN 0
    ELSE 16 * BigIntOfHex(SubSeq(ds, 1, Len(ds) - 1)) + ds[Len(ds)]

RECURSIVE PadWhole(_, _)
\* while (str.length <= decimals) str = "0" + str
PadWhole(str, decimals) ==
    IF Len(str) <= decimals THEN PadWhole(<<"0">> \o str, decimals) ELSE str

RECURSIVE TrimWhole(_)
\* while (str[0] === "0" && str[1] !== ".") str = str.substring(1)
TrimWhole(str) ==
    IF Len(str) >= 2 /\ str[1] = "0" /\ str[2] # "."
    THEN TrimWhole(Tail(str)) ELSE str

\* a formatting that leaves the fraction's trailing zeros in place
KeepFraction(str) == str

RECURSIVE TrimFraction(_)
\* while (last === "0" && the one before !== ".") drop the last character
TrimFraction(str) ==
    IF Len(str) >= 2 /\ str[Len(str)] = "0" /\ str[Len(str) - 1] # "."
    THEN TrimFraction(SubSeq(str, 1, Len(str) - 1)) ELSE str

\* ethers.formatUnits on value.toString(): the decimal point is placed
\* `decimals` characters from the end
FormatDecimalString(str, decimals) ==
    IF decimals = 0 THEN str
    ELSE LET padded == PadWhole(str, decimals)
             index == Len(padded) - decimals
             dotted == SubSeq(padded, 1, index) \o <<".">>
                       \o SubSeq(padded, index + 1, Len(padded))
         IN TrimFraction(TrimWhole(dotted))

\* ethers.formatUnits(value, decimals)
formatUnits(value, decimals) == FormatDecimalString(BigIntToString(value), decimals)

----------------------------------------------------------------------------
(* Token-transfer detection and enrichment (WalletService; the same code   *)
(* is repeated in TransactionService).                                     *)

\* provider.getTransactionReceipt(hash) when the call succeeds
Receipt(hash, chainId) ==
    IF hash \in OnChain(chainId)
    THEN Some([status |-> ChainTx(hash).receiptStatus,
               gasUsed |-> ChainTx(hash).gasUsed,
               logs |-> ChainTx(hash).logs])
    ELSE None

\* BigInt(dataHex) throws on "0x" and on a non-hex digit
HexOk(ds) == ds # << >> /\ \A k \in 1..Len(ds) : ds[k] \in 0..15

\* a detection that takes any log of three topics for a transfer
MatchesAnyThreeTopics(log) == Len(log.topics) = 3

\* the try block of the loop body: does this log match and parse?
LogMatches(log) ==
    /\ Len(log.topics) = 3
    /\ log.topics[1] = TRANSFER_EVENT_SIGNATURE
LogParses(log) ==
    /\ getAddressOk(Low20(log.topics[2]))
    /\ getAddressOk(Low20(log.topics[3]))
    /\ HexOk(log.data)

RECURSIVE StopAtUnparsable(_)
\* a detection that gives up at the first matching log that fails to parse
StopAtUnparsable(logs) ==
    IF logs = << >> THEN None
    ELSE LET log == Head(logs) IN
         IF LogMatches(log)
         THEN IF LogParses(log)
              THEN Some([contractAddress |-> log.address,
                         from |-> getAddress(Low20(log.topics[2])),
                         to |-> getAddress(Low20(log.topics[3])),
                         amount |-> BigIntOfHex(log.data)])
              ELSE None
         ELSE StopAtUnparsable(Tail(logs))

RECURSIVE detectInLogs(_)
\* for (const log of receipt.logs) { try { ... return } catch { continue } }
detectInLogs(logs) ==
    IF logs = << >> THEN None
    ELSE LET log == Head(logs) IN
         IF LogMatches(log) /\ LogParses(log)
         THEN Some([contractAddress |-> log.address,
                    from |-> getAddress(Low20(log.topics[2])),
                    to |-> getAddress(Low20(log.topics[3])),
                    amount |-> BigIntOfHex(log.data)])
         ELSE detectInLogs(Tail(logs))

\* detectTokenTransfer(receipt, provider); receipt is None (null) or Some
detectTokenTransfer(receipt) ==
    IF receipt = None \/ TheValue(receipt).logs = << >> THEN None
    ELSE detectInLogs(TheValue(receipt).logs)

\* `fulfilled` is the set of calls among name, symbol, decimals that
\* succeeded: the contract answers all three or none.
MetaOutcomes == {{"name", "symbol", "decimals"}, {}}

\* a metadata lookup that answers only when all three calls succeed
AllOrNothingMetadata(values, fulfilled) ==
    IF fulfilled = {"name", "symbol", "decimals"}
    THEN [name |-> Some(values.name), symbol |-> Some(values.symbol),
          decimals |-> Some(values.decimals)]
    ELSE [name |-> None, symbol |-> None, decimals |-> None]

\* the object built from the three settled calls, `values` being what the
\* calls return when they succeed
SettledMetadata(values, fulfilled) ==
    [name |-> IF "name" \in fulfilled THEN Some(values.name) ELSE None,
     symbol |-> IF "symbol" \in fulfilled THEN Some(values.symbol) ELSE None,
     decimals |-> IF "decimals" \in fulfilled THEN Some(values.decimals)
                  ELSE None]

\* catch { return {} }
EmptyMetadata == [name |-> None, symbol |-> None, decimals |-> None]

getTokenMetadata(contractAddress, fulfilled) ==
    SettledMetadata(ContractMeta(contractAddress), fulfilled)

\* an enrichment that never uses the resolved decimals
DecimalsAlwaysDefault(meta) == DefaultDecimals

\* tokenMetadata.decimals ?? 18
DecimalsOrDefault(meta) ==
    IF IsSome(meta.decimals) THEN TheValue(meta.decimals) ELSE DefaultDecimals

\* the tokenTransfer record built from a detected transfer and the metadata
TokenTransferOf(info, meta) ==
    [contractAddress |-> info.contractAddress,
     tokenName |-> meta.name,
     tokenSymbol |-> meta.symbol,
     tokenDecimals |-> Some(DecimalsOrDefault(meta)),
     amount |-> BigIntToString(info.amount),
     amountFormatted |-> formatUnits(info.amount, DecimalsOrDefault(meta))]

\* What the provider does during one enrichment: the receipt call succeeds
\* or not, and which metadata calls are fulfilled.
EnrichOutcomes == [receipt : {"ok", "fail"}, meta : MetaOutcomes]

\* an enrichment that marks the transaction failed when it has no receipt
EnrichMarkingFailed(tx, receipt, fulfilled) ==
    LET info == detectTokenTransfer(receipt) IN
    IF receipt = None THEN [tx EXCEPT !.status = "failed"]
    ELSE IF info = None THEN tx
    ELSE [tx EXCEPT !.tokenTransfer =
             Some(TokenTransferOf(TheValue(info),
                     getTokenMetadata(TheValue(info).contractAddress, fulfilled)))]

\* enrichTransactionWithTokenInfo once the receipt call has settled:
\* `receipt` is None when it failed or returned null
EnrichWithReceipt(tx, receipt, fulfilled) ==
    LET info == detectTokenTransfer(receipt) IN
    IF receipt = None \/ info = None THEN tx
    ELSE [tx EXCEPT !.tokenTransfer =
             Some(TokenTransferOf(TheValue(info),
                     getTokenMetadata(TheValue(info).contractAddress, fulfilled)))]

\* enrichTransactionWithTokenInfo(tx, chainId)
enrichTransactionWithTokenInfo(tx, chainId, env) ==
    EnrichWithReceipt(tx,
                      IF env.receipt = "ok" THEN Receipt(tx.hash, chainId) ELSE None,
                      env.meta)

----------------------------------------------------------------------------
(* Transaction fetchers                                                    *)

SyncLimit == 50
maxBlocksToCheck == 5000

Min(a, b) == IF a < b THEN a ELSE b
Max(a, b) == IF a > b THEN a ELSE b

\* Math.max(1, Math.floor(maxBlocksToCheck / 1000))
blockStep == Max(1, maxBlocksToCheck \div 1000)

RECURSIVE SubSequences(_)
SubSequences(s) ==
    IF s = << >> THEN {<< >>}
    ELSE LET rest == SubSequences(Tail(s))
         IN rest \cup {<<Head(s)>> \o r : r \in rest}

\* The transactions of the chain that involve `address`, newest first
Involves(h, address) ==
    \/ toLowerCase(ChainTx(h).from) = address
    \/ toLowerCase(ChainTx(h).to) = address
History(address, chainId) ==
    SelectSeq(<<"h1", "h2">>,
              LAMBDA h : h \in OnChain(chainId) /\ Involves(h, address))

\* One HTTP exchange with the indexer, as fetchTransactionsFromEtherscan
\* sees it: `key` is whether this.etherscanApiKey is set, `http` whether
\* fetch(url) resolves, `json` whether response.json() resolves, `status`
\* is data.status as a JavaScript literal and `result` is data.result: a
\* string, undefined, a non-array object, or an array of entries.
StatusFlags == {"'1'", "'0'", "0"}
MalformedEntry == "hx"    \* an entry whose value ethers.formatEther rejects
ArrayResult(items) == [kind |-> "array", items |-> items]
NoKeyReply ==
    [key |-> FALSE, http |-> "ok", json |-> "ok", status |-> "'1'",
     result |-> ArrayResult(<< >>)]
ListReply(items) ==
    [key |-> TRUE, http |-> "ok", json |-> "ok", status |-> "'1'",
     result |-> ArrayResult(items)]

\* What the indexer may answer in a sync: a failure (no API key, HTTP
\* error, status 0, rate limit) or a list, newest first, of the address's
\* transactions.
IndexerAnswers(address, chainId) ==
    {NoKeyReply}
    \cup {ListReply(r) : r \in SubSequences(History(address, chainId))}

\* one entry of the indexer's result mapped to a TransactionResponse
\* a record whose status ignores the isError flag
EntryAlwaysSuccess(tx) ==
    [hash |-> tx.hash, from |-> tx.from, to |-> tx.to, value |-> tx.value,
     blockNumber |-> tx.blockNumber, gasUsed |-> Some(tx.gasUsed),
     gasPrice |-> Some(tx.gasPrice), timestamp |-> tx.timestamp,
     status |-> "success", tokenTransfer |-> None]

\* the TransactionResponse pushed for one record of the indexer's result
EtherscanEntryOf(tx) ==
    [hash |-> tx.hash, from |-> tx.from, to |-> tx.to, value |-> tx.value,
     blockNumber |-> tx.blockNumber, gasUsed |-> Some(tx.gasUsed),
     gasPrice |-> Some(tx.gasPrice), timestamp |-> tx.timestamp,
     status |-> IF tx.isError = "0" THEN "success" ELSE "failed",
     tokenTransfer |-> None]

EtherscanEntry(h) == EtherscanEntryOf(ChainTx(h))

\* the number of HTTP requests the fetch issues: none without an API key
EtherscanRequests(answer) == IF answer.key THEN 1 ELSE 0

\* a fetch that maps whatever data.result holds, whatever the status flag
MapWithoutChecks(address, limit, chainId, answer) ==
    [k \in 1..Min(limit, Len(answer.result.items)) |->
        EtherscanEntry(answer.result.items[k])]

\* fetchTransactionsFromEtherscan(address, limit, chainId)
fetchTransactionsFromEtherscan(address, limit, chainId, answer) ==
    IF ~answer.key THEN << >>
    ELSE IF answer.http = "throw" \/ answer.json = "throw" THEN << >>
    ELSE IF answer.status \in {"'0'", "0"} THEN << >>
    ELSE IF answer.result.kind # "array" THEN << >>
    ELSE IF answer.result.items = << >> THEN << >>
    ELSE LET taken == SubSeq(answer.result.items, 1,
                             Min(limit, Len(answer.result.items)))
         IN IF \E k \in 1..Len(taken) : taken[k] = MalformedEntry
            THEN << >>    \* formatEther throws: catch { return []; }
            ELSE [k \in 1..Len(taken) |-> EtherscanEntry(taken[k])]

\* What the provider may do during a block scan: getBlockNumber succeeds or
\* not, some block fetches fail or time out, and each receipt fetch returns
\* the receipt or fails / times out.
ScanOutcomes ==
    [blockNumber : BOOLEAN,
     badBlocks : SUBSET {ChainTx(h).blockNumber : h \in Hashes},
     receipts : [Hashes -> {"ok", "throw"}]]

\* the entry pushed for a matching transaction of block `blockNumber`
\* the TransactionResponse pushed for a matching transaction of a scanned
\* block, given its receipt (None when the provider has none)
ScanEntryOf(tx, receipt, blockNumber) ==
    [hash |-> tx.hash, from |-> tx.from, to |-> tx.to, value |-> tx.value,
     blockNumber |-> blockNumber,
     gasUsed |-> IF IsSome(receipt) THEN Some(TheValue(receipt).gasUsed) ELSE None,
     gasPrice |-> Some(tx.gasPrice),
     timestamp |-> BlockTimestamp(blockNumber),
     status |-> IF IsSome(receipt) /\ TheValue(receipt).status = 1
                THEN "success" ELSE "failed",
     tokenTransfer |-> None]

ScanEntry(h, chainId, blockNumber, receiptOutcome) ==
    ScanEntryOf(ChainTx(h),
                IF receiptOutcome = "ok" THEN Receipt(h, chainId) ELSE None,
                blockNumber)

\* a match that accepts a transaction without a receiver
MatchesEitherParty(tx, address) ==
    \/ toLowerCase(tx.from) = address
    \/ toLowerCase(tx.to) = address

\* isValidTransaction(tx) && tx.from && tx.to, then
\* from === address || to === address on the lowercased parties
MatchesWallet(tx, address) ==
    /\ TruthyString(tx.from)
    /\ TruthyString(tx.to)
    /\ \/ toLowerCase(tx.from) = address
       \/ toLowerCase(tx.to) = address

\* what the receipt request for h does; the receipt of the contract creation
\* is there whenever it is asked for
ReceiptOutcomeOf(env, h) == IF h = CreationHash THEN "ok" ELSE env.receipts[h]

\* for (const tx of block.transactions) { ... }
RECURSIVE scanBlockTransactions(_, _, _, _, _, _, _)
scanBlockTransactions(txs, acc, address, limit, chainId, blockNumber, env) ==
    IF txs = << >> \/ Len(acc) >= limit THEN acc
    ELSE LET h == Head(txs)
             matches == MatchesWallet(ChainTx(h), address)
             next == IF matches /\ ReceiptOutcomeOf(env, h) # "throw"
                     THEN Append(acc, ScanEntry(h, chainId, blockNumber,
                                                ReceiptOutcomeOf(env, h)))
                     ELSE acc
         IN scanBlockTransactions(Tail(txs), next, address, limit, chainId,
                                  blockNumber, env)

\* a scan that goes on through the window after `limit` transactions
ScanWholeWindow(i, scan, limit) == i < maxBlocksToCheck

\* i < maxBlocksToCheck && transactions.length < limit
ScanContinues(i, scan, limit) ==
    i < maxBlocksToCheck /\ Len(scan.transactions) < limit

\* a scan that gives up a whole block when one of its receipts fails
DropBlockOnReceiptFailure(world, scan, blockNumber, address, limit, chainId, env) ==
    LET txs == BlockTransactions(world, blockNumber) IN
    IF \/ blockNumber \in env.badBlocks
       \/ \E k \in 1..Len(txs) : env.receipts[txs[k]] = "throw"
    THEN scan
    ELSE [scan EXCEPT !.transactions =
             scanBlockTransactions(txs, @, address, limit, chainId,
                                   blockNumber, env)]

\* try { block = await getBlock(blockNumber, true); ... } catch { continue; }
inspectBlock(world, scan, blockNumber, address, limit, chainId, env) ==
    IF blockNumber \in env.badBlocks THEN scan
    ELSE [scan EXCEPT !.transactions =
             scanBlockTransactions(BlockTransactions(world, blockNumber), @,
                                   address, limit, chainId, blockNumber, env)]

\* the scan so far: the transactions collected and, for each getBlock call
\* issued, its block number and how many transactions were collected then
NoScan == [transactions |-> << >>, requested |-> << >>]

\* the last value the loop counter can take, in steps: i = k * blockStep
LastStep == (maxBlocksToCheck - 1) \div blockStep

RECURSIVE scanBlocks(_, _, _, _, _, _, _, _)
\* for (let i = 0; i < maxBlocksToCheck && transactions.length < limit; i += blockStep)
\* The iterations first..last of the loop, in order.  Once the loop
\* condition fails or the block number is negative no later iteration
\* runs; the range is halved only to bound the depth of the evaluation.
scanBlocks(world, first, last, scan, address, limit, chainId, env) ==
    LET i == first * blockStep
        blockNumber == world.currentBlock - i
    IN IF first > last \/ ~ScanContinues(i, scan, limit) THEN scan
       ELSE IF blockNumber < 0 THEN scan    \* break
       ELSE IF first = last
            THEN LET asked == [scan EXCEPT !.requested =
                                  Append(@, [block |-> blockNumber,
                                             collected |-> Len(scan.transactions)])]
                 IN inspectBlock(world, asked, blockNumber, address, limit,
                                 chainId, env)
            ELSE LET mid == (first + last) \div 2
                 IN scanBlocks(world, mid + 1, last,
                               scanBlocks(world, first, mid, scan, address,
                                          limit, chainId, env),
                               address, limit, chainId, env)

RECURSIVE InsertByTimestamp(_, _)
InsertByTimestamp(tx, sorted) ==
    IF sorted = << >> THEN <<tx>>
    ELSE IF Head(sorted).timestamp >= tx.timestamp
         THEN <<Head(sorted)>> \o InsertByTimestamp(tx, Tail(sorted))
         ELSE <<tx>> \o sorted

RECURSIVE SortByTimestampDesc(_)
\* transactions.sort((a, b) => b.timestamp - a.timestamp), a stable sort
SortByTimestampDesc(txs) ==
    IF txs = << >> THEN << >>
    ELSE InsertByTimestamp(txs[Len(txs)],
                           SortByTimestampDesc(SubSeq(txs, 1, Len(txs) - 1)))

\* fetchTransactionsFromBlockchain on a given chain: the list returned and
\* the getBlock calls issued
BlockScan(world, address, limit, chainId, env) ==
    IF ~env.blockNumber THEN NoScan
    ELSE LET scan == scanBlocks(world, 0, LastStep, NoScan, address, limit,
                               chainId, env)
         IN [scan EXCEPT !.transactions = SortByTimestampDesc(@)]

\* fetchTransactionsFromBlockchain(address, limit, chainId)
fetchTransactionsFromBlockchain(address, limit, chainId, env) ==
    BlockScan(ChainWorld(chainId), address, limit, chainId, env).transactions

\* a sync that scans the blocks whatever the indexer returned
ScanAlways(fromIndexer) == TRUE

\* if (transactions.length === 0) transactions = await fetch...FromBlockchain
NeedsBlockScan(fromIndexer) == Len(fromIndexer) = 0

\* the fetch sequence shared by syncTransactions and the background sync
FetchTransactions(address, chainId, answer, scan) ==
    LET fromIndexer == fetchTransactionsFromEtherscan(address, SyncLimit, chainId, answer)
    IN [etherscan |-> fromIndexer,
        scanned |-> NeedsBlockScan(fromIndexer),
        transactions |->
            IF NeedsBlockScan(fromIndexer)
            THEN fetchTransactionsFromBlockchain(address, SyncLimit, chainId, scan)
            ELSE fromIndexer]

\* every outcome the two fetches can have for a wallet, over all the
\* indexer answers and provider behaviours
SyncTargets == {toLowerCase(AddrA), toLowerCase(AddrB)}
FetchResults ==
    [address \in SyncTargets, chainId \in ChainIds |->
        {FetchTransactions(address, chainId, answer, scan) :
            answer \in IndexerAnswers(address, chainId), scan \in ScanOutcomes}]

----------------------------------------------------------------------------
(* The Prisma store: Wallet and Transaction tables with their unique       *)
(* indexes.  A table is the set of its rows.                               *)

\* CREATE UNIQUE INDEX "Wallet_address_key" ON "Wallet"("address")
Wallet_address_key(table, address) ==
    \A w \in table : w.address # address

\* prisma.wallet.findUnique({ where: { address } })
\* (None when absent, Some(row) when present)
walletFindUnique(table, address) ==
    {w \in table : w.address = address}

\* prisma.wallet.findFirst({ where: { OR: [{address: a}, {address: b}] } }):
\* the rows it may return (no orderBy: any matching row)
walletFindFirst(table, a, b) ==
    {w \in table : w.address \in {a, b}}

\* prisma.wallet.create({ data: { address } }): the new row, its id a
\* fresh cuid().  updatedAt tells the time of creation ("created") from
\* the time of a later update ("refreshed").
NewWallet(table, address) ==
    [id |-> <<"cuid", address>>, address |-> address, updatedAt |-> "created"]

NullToken ==
    [tokenContractAddress |-> None, tokenName |-> None, tokenSymbol |-> None,
     tokenDecimals |-> None, tokenAmount |-> None, tokenAmountFormatted |-> None]

\* the token columns written for a tokenTransfer (x || null on the
\* optional ones)
TokenColumns(tt) ==
    [tokenContractAddress |-> Some(tt.contractAddress),
     tokenName |-> IF IsSome(tt.tokenName) /\ TruthyString(TheValue(tt.tokenName))
                   THEN tt.tokenName ELSE None,
     tokenSymbol |-> IF IsSome(tt.tokenSymbol) /\ TruthyString(TheValue(tt.tokenSymbol))
                     THEN tt.tokenSymbol ELSE None,
     tokenDecimals |-> IF IsSome(tt.tokenDecimals) /\ TruthyNumber(TheValue(tt.tokenDecimals))
                       THEN tt.tokenDecimals ELSE None,
     tokenAmount |-> Some(tt.amount),
     tokenAmountFormatted |-> Some(tt.amountFormatted)]

\* x ? BigInt(x) : null
OptBigInt(o) ==
    IF IsSome(o) /\ TruthyString(TheValue(o))
    THEN Some(BigIntOfString(TheValue(o))) ELSE None

\* upsert data that stores the addresses as they were fetched
UpsertDataAsFetched(tx, chainId, walletId, withToken) ==
    [hash |-> tx.hash,
     chainId |-> chainId,
     fromAddress |-> tx.from,
     toAddress |-> tx.to,
     amount |-> tx.value,
     blockNumber |-> tx.blockNumber,
     gasUsed |-> OptBigInt(tx.gasUsed),
     gasPrice |-> OptBigInt(tx.gasPrice),
     timestamp |-> tx.timestamp * 1000,
     status |-> tx.status,
     walletId |-> Some(walletId),
     token |-> IF withToken /\ IsSome(tx.tokenTransfer)
               THEN Some(TokenColumns(TheValue(tx.tokenTransfer))) ELSE None]

\* The update / create payload of the reconciliation upsert.  `token` is
\* None when the payload carries no token columns.
UpsertData(tx, chainId, walletId, withToken) ==
    [hash |-> tx.hash,
     chainId |-> chainId,
     fromAddress |-> toLowerCase(tx.from),
     toAddress |-> toLowerCase(tx.to),
     amount |-> tx.value,
     blockNumber |-> tx.blockNumber,
     gasUsed |-> OptBigInt(tx.gasUsed),
     gasPrice |-> OptBigInt(tx.gasPrice),
     timestamp |-> tx.timestamp * 1000,
     status |-> tx.status,
     walletId |-> Some(walletId),
     token |-> IF withToken /\ IsSome(tx.tokenTransfer)
               THEN Some(TokenColumns(TheValue(tx.tokenTransfer))) ELSE None]

\* the row a create inserts, and the row an update leaves
CreateRow(data) ==
    [data EXCEPT !.token = IF IsSome(data.token) THEN TheValue(data.token) ELSE NullToken]
\* an update that writes nothing
KeepStoredRow(row, data) == row

\* an update that nulls the token columns when the payload has none
ClearTokenOnUpdate(row, data) ==
    [data EXCEPT !.hash = row.hash,
                 !.token = IF IsSome(data.token) THEN TheValue(data.token) ELSE NullToken]

\* update: { ...fields, ...(tx.tokenTransfer && { token columns }) }
ApplyUpdate(row, data) ==
    [data EXCEPT !.hash = row.hash,
                 !.token = IF IsSome(data.token) THEN TheValue(data.token) ELSE row.token]

\* a key lookup that ignores the chain
RowsWithHash(table, hash, chainId) == {r \in table : r.hash = hash}

RowsWithKey(table, hash, chainId) ==
    {r \in table : r.hash = hash /\ r.chainId = chainId}

\* CREATE UNIQUE INDEX "Transaction_hash_key" ON "Transaction"("hash") and
\* CREATE UNIQUE INDEX "Transaction_hash_chainId_key" ON "Transaction"("hash", "chainId")
TransactionUniqueOk(table, row) ==
    /\ \A r \in table : r.hash # row.hash
    /\ RowsWithKey(table, row.hash, row.chainId) = {}

\* a blind insert into a table without unique indexes
transactionInsertAlways(table, data) ==
    [ok |-> TRUE, table |-> table \cup {CreateRow(data)}]

\* an upsert that empties the table before it writes
transactionReplaceAll(table, data) ==
    [ok |-> TRUE, table |-> {CreateRow(data)}]

\* prisma.transaction.upsert({ where: { hash_chainId }, update, create }):
\* one atomic statement; a unique-index violation makes it throw.
transactionUpsert(table, data) ==
    LET found == RowsWithKey(table, data.hash, data.chainId) IN
    IF found # {}
    THEN [ok |-> TRUE,
          table |-> (table \ found) \cup {ApplyUpdate(r, data) : r \in found}]
    ELSE IF TransactionUniqueOk(table, CreateRow(data))
         THEN [ok |-> TRUE, table |-> table \cup {CreateRow(data)}]
         ELSE [ok |-> FALSE, table |-> table]

\* prisma.transaction.updateMany({ where: { hash, chainId }, data: token columns })
transactionUpdateManyToken(table, hash, chainId, columns) ==
    LET found == RowsWithKey(table, hash, chainId) IN
    (table \ found) \cup {[r EXCEPT !.token = columns] : r \in found}

RECURSIVE OrderByTimestampDesc(_)
\* orderBy: { timestamp: 'desc' } (rows of equal timestamp in any order)
OrderByTimestampDesc(rows) ==
    IF rows = {} THEN << >>
    ELSE LET first == CHOOSE r \in rows : \A q \in rows : q.timestamp <= r.timestamp
         IN <<first>> \o OrderByTimestampDesc(rows \ {first})

\* wallet.transactions of findUnique({ include: { transactions: { where:
\* { chainId }, orderBy: { timestamp: 'desc' } } } })
WalletTransactions(table, walletId, chainId) ==
    OrderByTimestampDesc({r \in table : r.walletId = Some(walletId) /\ r.chainId = chainId})

----------------------------------------------------------------------------
(* Asynchronous operations.  A task is one invocation of syncTransactions, *)
(* syncTransactionsInBackground, getTransactionByHash or                   *)
(* enrichAndCacheTokenInfo; pc is the store access it performs next.  A    *)
(* task that completes leaves its slot and shows in lastResponse.          *)

Tasks == 1..MaxTasks

Pending == [status |-> "pending"]
Ok(v) == [status |-> "ok", value |-> v]
\* throw new Error(`${prefix}: ${cause}`)
Failure(prefix, cause) ==
    [status |-> "error", name |-> "Error", message |-> <<prefix, cause>>]
\* throw new NotFoundException(`Transaction ${hash} not found`)
NotFound(hash) ==
    [status |-> "error", name |-> "NotFoundException",
     message |-> <<"Transaction not found", hash>>]
\* an un-awaited promise whose rejection is swallowed by catch {}
Swallowed(cause) == [status |-> "swallowed", cause |-> cause]

NoTask ==
    [op |-> "none", pc |-> "idle", address |-> "", chainId |-> 0, hash |-> "",
     wallet |-> None, created |-> FALSE, fetched |-> FALSE, etherscan |-> << >>, scanned |-> FALSE,
     transactions |-> << >>, i |-> 1, synced |-> 0, upserted |-> {},
     lastWrite |-> None, tx |-> None, result |-> Pending]

NoResponse == [op |-> "none", result |-> Pending, effects |-> {}, task |-> NoTask]

\* the completion of a call that used no task (getBalance, getTransactions)
Response(call, effects, result) ==
    [op |-> call.op, call |-> call, result |-> result, effects |-> effects,
     task |-> NoTask, enrichFailed |-> {}]

\* the completion of a task
Completion(task) ==
    [op |-> task.op, result |-> task.result, effects |-> {}, task |-> task]

\* no step is taken between an operation's completion and its delivery
Idle == lastResponse = NoResponse

Free(t) == tasks[t].op = "none"
FreeSlots == {t \in Tasks : Free(t)}
FirstFree == CHOOSE t \in FreeSlots : \A u \in FreeSlots : t <= u

\* what a completing task adds to backgroundSynced
SyncedBy(task) ==
    IF /\ task.op = "syncTransactionsInBackground"
       /\ task.result.status = "ok"
       /\ task.created
       /\ task.upserted = 1..Len(task.transactions)
    THEN {<<task.address, task.chainId, task.transactions[k].hash>> :
             k \in 1..Len(task.transactions)}
    ELSE {}

\* slot t continues as `task`, or is left when `task` is done
Continue(t, task) ==
    IF task.pc = "done"
    THEN /\ tasks' = [tasks EXCEPT ![t] = NoTask]
         /\ lastResponse' = Completion(task)
         /\ backgroundSynced' = backgroundSynced \cup SyncedBy(task)
    ELSE /\ tasks' = [tasks EXCEPT ![t] = task]
         /\ lastResponse' = NoResponse
         /\ UNCHANGED backgroundSynced

Finish(task, result) == [task EXCEPT !.pc = "done", !.result = result]

\* the value a finished reconciliation loop returns
LoopResult(task) ==
    IF task.op = "syncTransactions" THEN Ok([synced |-> task.synced]) ELSE Ok(None)

\* what the outer catch of the operation does with an exception
OuterCatch(task, cause) ==
    IF task.op = "syncTransactions"
    THEN Finish(task, Failure("Failed to sync transactions", cause))
    ELSE Finish(task, Swallowed(cause))

\* for (const tx of transactions) { ... }: enter the loop or skip it
EnterLoop(task) ==
    IF Len(task.transactions) = 0 THEN Finish(task, LoopResult(task))
    ELSE [task EXCEPT !.pc = "upsert", !.i = 1]

\* the two fetches, recorded in the task
WithFetch(task, f) ==
    [task EXCEPT !.fetched = TRUE, !.etherscan = f.etherscan,
                 !.scanned = f.scanned, !.transactions = f.transactions]

\* TransactionService.syncTransactions up to and including
\* prisma.wallet.findUnique; the fetches follow when the wallet exists
CallSyncTransactions(address, chainId) ==
    /\ Idle
    /\ callsLeft > 0
    /\ FreeSlots # {}
    /\ callsLeft' = callsLeft - 1
    /\ UNCHANGED <<wallets, transactions, pendingTokenWrites, version>>
    /\ LET task == [NoTask EXCEPT !.op = "syncTransactions",
                                  !.address = toLowerCase(address),
                                  !.chainId = chainId]
           found == walletFindUnique(wallets, toLowerCase(address))
       IN IF ~isAddress(address)
          THEN Continue(FirstFree, OuterCatch(task, "Invalid Ethereum address"))
          ELSE \/ Continue(FirstFree, OuterCatch(task, "store failure"))
               \/ /\ found = None
                  /\ Continue(FirstFree, [task EXCEPT !.pc = "createWallet"])
               \/ /\ found # None
                  /\ \E f \in FetchResults[task.address, chainId] :
                        Continue(FirstFree,
                            EnterLoop(WithFetch([task EXCEPT !.wallet = found], f)))

\* WalletService.syncTransactionsInBackground up to and including
\* prisma.wallet.findUnique (the fetches come first)
BackgroundStart(t) ==
    /\ Idle
    /\ tasks[t].op = "syncTransactionsInBackground"
    /\ tasks[t].pc = "start"
    /\ UNCHANGED <<wallets, transactions, callsLeft, pendingTokenWrites, version>>
    /\ \E f \in FetchResults[tasks[t].address, tasks[t].chainId] :
          LET task == WithFetch(tasks[t], f)
              found == walletFindUnique(wallets, task.address)
          IN \/ Continue(t, OuterCatch(task, "store failure"))
             \/ /\ found = None
                /\ Continue(t, [task EXCEPT !.pc = "createWallet"])
             \/ /\ found # None
                /\ Continue(t, EnterLoop([task EXCEPT !.wallet = found]))

\* prisma.wallet.create({ data: { address } }) of either sync; it throws on
\* a store failure or when the address is already there
CreateWallet(t) ==
    /\ Idle
    /\ tasks[t].pc = "createWallet"
    /\ UNCHANGED <<transactions, callsLeft, pendingTokenWrites, version>>
    /\ \/ /\ Continue(t, OuterCatch(tasks[t], "store failure"))
          /\ UNCHANGED wallets
       \/ /\ ~Wallet_address_key(wallets, tasks[t].address)
          /\ Continue(t, OuterCatch(tasks[t], "Unique constraint failed"))
          /\ UNCHANGED wallets
       \/ /\ Wallet_address_key(wallets, tasks[t].address)
          /\ wallets' = wallets \cup {NewWallet(wallets, tasks[t].address)}
          /\ LET task == [tasks[t] EXCEPT
                            !.wallet = Some(NewWallet(wallets, tasks[t].address)),
                            !.created = TRUE]
             IN IF task.fetched
                THEN Continue(t, EnterLoop(task))
                ELSE \E f \in FetchResults[task.address, task.chainId] :
                        Continue(t, EnterLoop(WithFetch(task, f)))

\* does this loop enrich before writing?  (the background sync and the
\* part_007 syncTransactions do, transaction.service.ts does not)
EnrichesInLoop(task) ==
    task.op = "syncTransactionsInBackground" \/ version = "part_007"

\* the loop body up to the upsert: the transaction to write
LoopTransaction(task, first, env) ==
    LET tx == task.transactions[task.i] IN
    IF EnrichesInLoop(task) /\ first = "ok" /\ Receipt(tx.hash, task.chainId) # None
    THEN enrichTransactionWithTokenInfo(tx, task.chainId, env)
    ELSE tx

\* the upsert arguments the iteration can arrive at, over all the provider's
\* behaviours
LoopWrites(task) ==
    {UpsertData(LoopTransaction(task, first, env), task.chainId,
                TheValue(task.wallet).id, EnrichesInLoop(task)) :
        first \in {"ok", "fail"}, env \in EnrichOutcomes}

\* a loop that counts every iteration, failed or not
CountEveryIteration(task, data, ok) ==
    LET counted == [task EXCEPT !.synced = @ + 1,
                                !.upserted = IF ok THEN @ \cup {task.i} ELSE @,
                                !.lastWrite = IF ok THEN Some(data) ELSE @]
    IN IF task.i = Len(task.transactions)
       THEN Finish(counted, LoopResult(counted))
       ELSE [counted EXCEPT !.i = @ + 1]

\* the task after one iteration of the loop
AfterIteration(task, data, ok) ==
    LET counted == IF ok THEN [task EXCEPT !.synced = @ + 1,
                                            !.upserted = @ \cup {task.i},
                                            !.lastWrite = Some(data)]
                   ELSE task
    IN IF task.i = Len(task.transactions)
       THEN Finish(counted, LoopResult(counted))
       ELSE [counted EXCEPT !.i = @ + 1]

\* one iteration of the reconciliation loop: enrichment (where the code
\* has it) and prisma.transaction.upsert, failures skipped
UpsertStep(t) ==
    /\ Idle
    /\ tasks[t].pc = "upsert"
    /\ UNCHANGED <<wallets, callsLeft, pendingTokenWrites, version>>
    /\ \E data \in LoopWrites(tasks[t]), dbOk \in BOOLEAN :
          LET task == tasks[t]
              res == IF dbOk THEN transactionUpsert(transactions, data)
                     ELSE [ok |-> FALSE, table |-> transactions]
          IN /\ transactions' = res.table
             /\ Continue(t, AfterIteration(task, data, res.ok))

----------------------------------------------------------------------------
(* WalletService.getBalance and getTransactions: one store access each, so *)
(* one step each, completing in that step.                                 *)

Types == {"all", "sent", "received"}

\* the queries made: the whole list, and one-row pages of each direction
Queries ==
    {[type |-> "all", limit |-> 2, page |-> 1],
     [type |-> "sent", limit |-> 1, page |-> 1],
     [type |-> "received", limit |-> 1, page |-> 2]}
InputAddresses == {AddrA, toLowerCase(AddrB), InvalidAddress}

\* bigint.toString() of the gas columns
StringOfBigInt(n) ==
    CASE n = 21000 -> "21000"
      [] n = 20 -> "20"
      [] OTHER -> "0"

\* x ? x.toString() : undefined  (0n is falsy)
OptString(o) ==
    IF IsSome(o) /\ TruthyNumber(TheValue(o))
    THEN Some(StringOfBigInt(TheValue(o))) ELSE None

\* a cached row without its token columns, as a TransactionResponse
RowToBaseResponse(row) ==
    [hash |-> row.hash, from |-> row.fromAddress, to |-> row.toAddress,
     value |-> row.amount, blockNumber |-> row.blockNumber,
     gasUsed |-> OptString(row.gasUsed), gasPrice |-> OptString(row.gasPrice),
     timestamp |-> row.timestamp \div 1000, status |-> row.status,
     tokenTransfer |-> None]

\* x || '0' on the cached amount strings
OrZero(o) == IF IsSome(o) /\ TheValue(o) # << >> THEN TheValue(o) ELSE <<"0">>

\* x || undefined on a cached token column
StringOrUndefined(o) == IF IsSome(o) /\ TruthyString(TheValue(o)) THEN o ELSE None
NumberOrUndefined(o) == IF IsSome(o) /\ TruthyNumber(TheValue(o)) THEN o ELSE None

\* a cached row as a TransactionResponse, token info included if cached
RowToResponse(row) ==
    IF IsSome(row.token.tokenContractAddress)
       /\ TruthyString(TheValue(row.token.tokenContractAddress))
    THEN [RowToBaseResponse(row) EXCEPT !.tokenTransfer =
            Some([contractAddress |-> TheValue(row.token.tokenContractAddress),
                  tokenName |-> StringOrUndefined(row.token.tokenName),
                  tokenSymbol |-> StringOrUndefined(row.token.tokenSymbol),
                  tokenDecimals |-> NumberOrUndefined(row.token.tokenDecimals),
                  amount |-> OrZero(row.token.tokenAmount),
                  amountFormatted |-> OrZero(row.token.tokenAmountFormatted)])]
    ELSE RowToBaseResponse(row)

\* a direction filter that tests the wrong side of the transfer
FilterByOtherSide(txs, type, normalizedAddress) ==
    CASE type = "sent" ->
            SelectSeq(txs, LAMBDA tx : toLowerCase(tx.to) = normalizedAddress)
      [] type = "received" ->
            SelectSeq(txs, LAMBDA tx : toLowerCase(tx.from) = normalizedAddress)
      [] OTHER -> txs

\* the direction filter of getTransactions
FilterByType(txs, type, normalizedAddress) ==
    CASE type = "sent" ->
            SelectSeq(txs, LAMBDA tx : toLowerCase(tx.from) = normalizedAddress)
      [] type = "received" ->
            SelectSeq(txs, LAMBDA tx : toLowerCase(tx.to) = normalizedAddress)
      [] OTHER -> txs

\* a page count that rounds down
FloorDiv(total, limit) == total \div limit

\* Math.ceil(total / limit) for limit >= 1
CeilDiv(total, limit) == (total + limit - 1) \div limit

\* allTransactions.slice(skip, skip + limit)
Slice(txs, skip, end) == SubSeq(txs, skip + 1, Min(end, Len(txs)))

\* total, totalPages, hasMore and the page's slice
Paginate(txs, page, limit) ==
    [transactions |-> Slice(txs, (page - 1) * limit, (page - 1) * limit + limit),
     total |-> Len(txs),
     page |-> page,
     limit |-> limit,
     totalPages |-> CeilDiv(Len(txs), limit),
     hasMore |-> page < CeilDiv(Len(txs), limit)]

\* the page cut out of the whole list, then the filter applied to the page
SliceThenFilter(txs, type, normalizedAddress, page, limit) ==
    [Paginate(txs, page, limit) EXCEPT
        !.transactions = FilterByType(@, type, normalizedAddress)]

\* the filter applied to the whole list, then the page cut out of it
FilteredPage(txs, type, normalizedAddress, page, limit) ==
    Paginate(FilterByType(txs, type, normalizedAddress), page, limit)

\* an enrichment of the page that one failed receipt call aborts
EnrichPageUnlessOneFails(txs, chainId, envs) ==
    IF \E k \in 1..Len(txs) : txs[k].tokenTransfer = None /\ envs[k].receipt = "fail"
    THEN txs
    ELSE [k \in 1..Len(txs) |->
            IF IsSome(txs[k].tokenTransfer) THEN txs[k]
            ELSE enrichTransactionWithTokenInfo(txs[k], chainId, envs[k])]

\* the page after enrichment of the transactions without cached token info
EnrichPage(txs, chainId, envs) ==
    [k \in 1..Len(txs) |->
        IF IsSome(txs[k].tokenTransfer) THEN txs[k]
        ELSE enrichTransactionWithTokenInfo(txs[k], chainId, envs[k])]

\* the transactions of the page whose receipt call failed during enrichment
EnrichFailures(txs, envs) ==
    {txs[k].hash : k \in {j \in 1..Len(txs) :
                             txs[j].tokenTransfer = None /\ envs[j].receipt = "fail"}}

\* the cacheTokenInfo calls that have something to write
TokenWrites(before, after, chainId) ==
    {[hash |-> after[k].hash, chainId |-> chainId,
      columns |-> TokenColumns(TheValue(after[k].tokenTransfer))] :
        k \in {j \in 1..Len(after) :
                  before[j].tokenTransfer = None /\ IsSome(after[j].tokenTransfer)}}

\* an upsert that creates a row whether or not the address is stored
walletCreateAlways(table, address) == table \cup {NewWallet(table, address)}

\* prisma.wallet.upsert({ where: { address }, update: { updatedAt: new Date() },
\*                        create: { address } })
walletUpsert(table, address) ==
    IF Wallet_address_key(table, address)
    THEN table \cup {NewWallet(table, address)}
    ELSE {IF w.address = address THEN [w EXCEPT !.updatedAt = "refreshed"] ELSE w :
             w \in table}

\* provider.getBalance(address) formatted by ethers.formatEther
BalanceInEth(address, chainId) == IF chainId = Sepolia THEN "1.5" ELSE "0.0"

\* a getBalance that does not look at the address
BalanceAddressUnchecked(address) == TRUE

\* if (!ethers.isAddress(address)) throw new Error('Invalid Ethereum address')
BalanceAddressValid(address) == isAddress(address)

GetBalance(address, chainId) ==
    /\ Idle
    /\ callsLeft > 0
    /\ callsLeft' = callsLeft - 1
    /\ UNCHANGED <<transactions, tasks, backgroundSynced, pendingTokenWrites, version>>
    /\ LET call == [op |-> "getBalance", address |-> address, chainId |-> chainId]
       IN IF ~BalanceAddressValid(address)
          THEN /\ UNCHANGED wallets
               /\ lastResponse' = Response(call, {},
                      Failure("Failed to fetch balance", "Invalid Ethereum address"))
          ELSE \/ /\ UNCHANGED wallets
                  /\ lastResponse' = Response(call, {"getProvider", "rpc"},
                         Failure("Failed to fetch balance", "rpc failure"))
               \/ /\ UNCHANGED wallets
                  /\ lastResponse' = Response(call, {"getProvider", "rpc", "store"},
                         Failure("Failed to fetch balance", "store failure"))
               \/ /\ wallets' = walletUpsert(wallets, toLowerCase(address))
                  /\ lastResponse' = Response(call, {"getProvider", "rpc", "store"},
                         Ok([balance |-> BalanceInEth(address, chainId)]))

\* a lookup that always takes the cached branch
CacheHitAlways(rows) == TRUE

\* a request that takes every wallet for an unseen one
CacheMissAlways(rows) == FALSE

\* if (wallet && wallet.transactions.length > 0)
CacheHit(rows) == Len(rows) > 0

GetTransactions(address, type, limit, page, chainId) ==
    /\ Idle
    /\ callsLeft > 0
    /\ callsLeft' = callsLeft - 1
    /\ UNCHANGED <<wallets, transactions, backgroundSynced, version>>
    /\ LET call == [op |-> "getTransactions", address |-> address, type |-> type,
                    limit |-> limit, page |-> page, chainId |-> chainId]
           normalizedAddress == toLowerCase(address)
           found == walletFindUnique(wallets, normalizedAddress)
           rows == IF found = None THEN << >>
                   ELSE WalletTransactions(transactions, TheValue(found).id, chainId)
           cached == [k \in 1..Len(rows) |-> RowToResponse(rows[k])]
           paged == FilteredPage(cached, type, normalizedAddress, page, limit)
       IN IF ~isAddress(address)
          THEN /\ UNCHANGED <<tasks, pendingTokenWrites>>
               /\ lastResponse' = Response(call, {},
                      Failure("Failed to fetch transactions", "Invalid Ethereum address"))
          ELSE \/ /\ UNCHANGED <<tasks, pendingTokenWrites>>
                  /\ lastResponse' = Response(call, {"store"},
                         Failure("Failed to fetch transactions", "store failure"))
               \/ /\ CacheHit(rows)
                  /\ UNCHANGED tasks
                  /\ \E envs \in [1..Len(paged.transactions) -> EnrichOutcomes] :
                        LET final == EnrichPage(paged.transactions, chainId, envs) IN
                        /\ pendingTokenWrites' = pendingTokenWrites
                               \cup TokenWrites(paged.transactions, final, chainId)
                        /\ lastResponse' =
                              [Response(call, {"store"},
                                        Ok([paged EXCEPT !.transactions = final]))
                                 EXCEPT !.enrichFailed =
                                            EnrichFailures(paged.transactions, envs)]
               \/ /\ ~CacheHit(rows)
                  /\ FreeSlots # {}
                  /\ tasks' = [tasks EXCEPT ![FirstFree] =
                        [NoTask EXCEPT !.op = "syncTransactionsInBackground",
                                       !.pc = "start",
                                       !.address = normalizedAddress,
                                       !.chainId = chainId]]
                  /\ UNCHANGED pendingTokenWrites
                  /\ lastResponse' = Response(call, {"store", "sync"}, Ok(paged))

\* one un-awaited cacheTokenInfo(tx, chainId) reaching its updateMany
CacheTokenInfo ==
    \E w \in pendingTokenWrites :
        /\ Idle
        /\ pendingTokenWrites' = pendingTokenWrites \ {w}
        /\ UNCHANGED <<wallets, tasks, callsLeft, lastResponse, backgroundSynced, version>>
        /\ \/ UNCHANGED transactions
           \/ transactions' =
                 transactionUpdateManyToken(transactions, w.hash, w.chainId, w.columns)

----------------------------------------------------------------------------
(* TransactionService.getTransactionByHash and cacheTransaction           *)

InputHashes == Hashes \cup {UnknownHash}

\* What the provider may do during an on-chain lookup
LookupOutcomes ==
    [tx : {"ok", "throw"}, receipt : {"ok", "null", "throw"},
     block : {"ok", "throw"}, meta : MetaOutcomes]

\* the TransactionResponse built from the transaction, its receipt (None when
\* the provider has none) and the timestamp of its block, with the token
\* transfer detected in that receipt
ResponseFromChain(tx, receipt, timestamp, meta) ==
    LET info == detectTokenTransfer(receipt)
    IN [hash |-> tx.hash, from |-> tx.from, to |-> tx.to, value |-> tx.value,
        blockNumber |-> tx.blockNumber,
        gasUsed |-> IF IsSome(receipt) THEN Some(TheValue(receipt).gasUsed) ELSE None,
        gasPrice |-> Some(tx.gasPrice),
        timestamp |-> timestamp,
        status |-> IF IsSome(receipt) /\ TheValue(receipt).status = 1
                   THEN "success" ELSE "failed",
        tokenTransfer |->
            IF info = None THEN None
            ELSE Some(TokenTransferOf(TheValue(info),
                        getTokenMetadata(TheValue(info).contractAddress, meta)))]

\* the response of the on-chain path for a transaction of the modelled chain
OnChainResponse(hash, chainId, env) ==
    ResponseFromChain(ChainTx(hash),
                      IF env.receipt = "ok" THEN Receipt(hash, chainId) ELSE None,
                      IF env.block = "ok" THEN BlockTimestamp(ChainTx(hash).blockNumber)
                      ELSE 0,
                      env.meta)

\* prisma.transaction.findFirst({ where: { hash, chainId } })
transactionFindFirst(table, hash, chainId) ==
    LET found == RowsWithKey(table, hash, chainId) IN
    IF found = {} THEN None
    ELSE Some(CHOOSE r \in found : TRUE)

\* a catch that wraps every error, NotFoundException included
WrapEveryError(task, error) ==
    Finish(task, Failure("Failed to fetch transaction", error.message[2]))

\* the outer catch of getTransactionByHash: a NotFoundException passes
\* unchanged, anything else is wrapped
LookupCatch(task, error) ==
    IF error.name = "NotFoundException" THEN Finish(task, error)
    ELSE Finish(task, Failure("Failed to fetch transaction", error.message[2]))

\* getTransactionByHash up to its first store write
CallGetTransactionByHash(hash, chainId) ==
    /\ Idle
    /\ callsLeft > 0
    /\ FreeSlots # {}
    /\ callsLeft' = callsLeft - 1
    /\ UNCHANGED <<wallets, transactions, pendingTokenWrites, version>>
    /\ LET task == [NoTask EXCEPT !.op = "getTransactionByHash", !.hash = hash,
                                  !.chainId = chainId]
           cachedTx == transactionFindFirst(transactions, hash, chainId)
           rpcError == Failure("", "rpc failure")
       IN \/ Continue(FirstFree, LookupCatch(task, Failure("", "store failure")))
          \/ /\ cachedTx # None
             /\ version = "transaction.service.ts"
             /\ \E env \in EnrichOutcomes :
                   Continue(FirstFree,
                       Finish(task, Ok(enrichTransactionWithTokenInfo(
                           RowToBaseResponse(TheValue(cachedTx)), chainId, env))))
          \/ /\ cachedTx # None
             /\ version = "part_007"
             /\ IsSome(RowToResponse(TheValue(cachedTx)).tokenTransfer)
             /\ Continue(FirstFree, Finish(task, Ok(RowToResponse(TheValue(cachedTx)))))
          \/ /\ cachedTx # None
             /\ version = "part_007"
             /\ RowToResponse(TheValue(cachedTx)).tokenTransfer = None
             /\ UNCHANGED backgroundSynced
             /\ lastResponse' =
                   Completion(Finish(task, Ok(RowToResponse(TheValue(cachedTx)))))
             /\ tasks' = [tasks EXCEPT ![FirstFree] =
                   [NoTask EXCEPT !.op = "enrichAndCacheTokenInfo",
                                  !.pc = "start", !.hash = hash, !.chainId = chainId,
                                  !.tx = Some(RowToResponse(TheValue(cachedTx)))]]
          \/ /\ cachedTx = None
             /\ \E env \in LookupOutcomes :
                   Continue(FirstFree,
                       IF env.tx = "throw" THEN LookupCatch(task, rpcError)
                       ELSE IF hash \notin OnChain(chainId)
                            THEN LookupCatch(task, NotFound(hash))
                       ELSE IF env.receipt = "throw" \/ env.block = "throw"
                            THEN LookupCatch(task, rpcError)
                       ELSE [task EXCEPT !.pc = "cacheFindWallet",
                                !.tx = Some(OnChainResponse(hash, chainId, env))])

\* enrichAndCacheTokenInfo (part_007): enrichment, then cacheTransaction
\* only when a token transfer was found
EnrichAndCacheStart(t) ==
    /\ Idle
    /\ tasks[t].op = "enrichAndCacheTokenInfo"
    /\ tasks[t].pc = "start"
    /\ UNCHANGED <<wallets, transactions, callsLeft, pendingTokenWrites, version>>
    /\ \E env \in EnrichOutcomes :
          LET enrichedTx == enrichTransactionWithTokenInfo(TheValue(tasks[t].tx),
                                                          tasks[t].chainId, env)
          IN Continue(t,
                IF IsSome(enrichedTx.tokenTransfer)
                THEN [tasks[t] EXCEPT !.pc = "cacheFindWallet", !.tx = Some(enrichedTx)]
                ELSE Finish(tasks[t], Ok(None)))

\* what the caller of cacheTransaction does once it returns (it never throws)
AfterCache(task) ==
    IF task.op = "getTransactionByHash" THEN Finish(task, Ok(TheValue(task.tx)))
    ELSE Finish(task, Ok(None))

\* cacheTransaction: prisma.wallet.findFirst({ where: { OR: [from, to] } })
CacheFindWallet(t) ==
    /\ Idle
    /\ tasks[t].pc = "cacheFindWallet"
    /\ UNCHANGED <<wallets, transactions, callsLeft, pendingTokenWrites, version>>
    /\ LET tx == TheValue(tasks[t].tx)
           found == walletFindFirst(wallets, toLowerCase(tx.from), toLowerCase(tx.to))
       IN \/ Continue(t, AfterCache(tasks[t]))
          \/ /\ found = {}
             /\ Continue(t, [tasks[t] EXCEPT !.pc = "cacheCreateWallet"])
          \/ \E w \in found :
                Continue(t, [tasks[t] EXCEPT !.pc = "cacheUpsert", !.wallet = Some(w)])

\* cacheTransaction: prisma.wallet.create({ data: { address: from } })
CacheCreateWallet(t) ==
    /\ Idle
    /\ tasks[t].pc = "cacheCreateWallet"
    /\ UNCHANGED <<transactions, callsLeft, pendingTokenWrites, version>>
    /\ LET address == toLowerCase(TheValue(tasks[t].tx).from)
       IN \/ /\ UNCHANGED wallets
             /\ Continue(t, AfterCache(tasks[t]))
          \/ /\ Wallet_address_key(wallets, address)
             /\ wallets' = wallets \cup {NewWallet(wallets, address)}
             /\ Continue(t, [tasks[t] EXCEPT !.pc = "cacheUpsert",
                                !.wallet = Some(NewWallet(wallets, address))])

\* which cacheTransaction writes token columns (part_007 does)
CacheWritesToken == version = "part_007"

\* cacheTransaction: prisma.transaction.upsert, failures swallowed
CacheUpsert(t) ==
    /\ Idle
    /\ tasks[t].pc = "cacheUpsert"
    /\ UNCHANGED <<wallets, callsLeft, pendingTokenWrites, version>>
    /\ \E dbOk \in BOOLEAN :
          LET task == tasks[t]
              data == UpsertData(TheValue(task.tx), task.chainId,
                                 TheValue(task.wallet).id, CacheWritesToken)
              res == IF dbOk THEN transactionUpsert(transactions, data)
                     ELSE [ok |-> FALSE, table |-> transactions]
          IN /\ transactions' = res.table
             /\ Continue(t, AfterCache(IF res.ok
                              THEN [task EXCEPT !.upserted = {1}, !.lastWrite = Some(data)]
                              ELSE task))

\* the caller receives the outcome of the operation that completed
Return ==
    /\ ~Idle
    /\ lastResponse' = NoResponse
    /\ UNCHANGED <<wallets, transactions, tasks, callsLeft, backgroundSynced,
                   pendingTokenWrites, version>>

----------------------------------------------------------------------------
Versions == {"transaction.service.ts", "part_007"}

Init ==
    /\ wallets = {}
    /\ transactions = {}
    /\ tasks = [t \in Tasks |-> NoTask]
    /\ callsLeft = MaxCalls
    /\ lastResponse = NoResponse
    /\ backgroundSynced = {}
    /\ pendingTokenWrites = {}
    /\ version \in Versions

Next ==
    \/ \E address \in InputAddresses, chainId \in ChainIds : GetBalance(address, chainId)
    \/ \E address \in InputAddresses, q \in Queries, chainId \in ChainIds :
          GetTransactions(address, q.type, q.limit, q.page, chainId)
    \/ \E hash \in InputHashes, chainId \in ChainIds :
          CallGetTransactionByHash(hash, chainId)
    \/ \E address \in InputAddresses, chainId \in ChainIds :
          CallSyncTransactions(address, chainId)
    \/ \E t \in Tasks : BackgroundStart(t)
    \/ \E t \in Tasks : CreateWallet(t)
    \/ \E t \in Tasks : UpsertStep(t)
    \/ \E t \in Tasks : EnrichAndCacheStart(t)
    \/ \E t \in Tasks : CacheFindWallet(t)
    \/ \E t \in Tasks : CacheCreateWallet(t)
    \/ \E t \in Tasks : CacheUpsert(t)
    \/ CacheTokenInfo
    \/ Return

Spec == Init /\ [][Next]_vars

----------------------------------------------------------------------------
(* The transaction list alone: getTransactions requests for the whole list *)
(* of either wallet, their background syncs and token-column writes.       *)

InitList ==
    /\ wallets = {}
    /\ transactions = {}
    /\ tasks = [t \in Tasks |-> NoTask]
    /\ callsLeft = MaxListCalls
    /\ lastResponse = NoResponse
    /\ backgroundSynced = {}
    /\ pendingTokenWrites = {}
    /\ version = "transaction.service.ts"

NextList ==
    \/ \E address \in {AddrA, toLowerCase(AddrB)} :
          GetTransactions(address, "all", 2, 1, Sepolia)
    \/ \E t \in Tasks : BackgroundStart(t)
    \/ \E t \in Tasks : CreateWallet(t)
    \/ \E t \in Tasks : UpsertStep(t)
    \/ CacheTokenInfo
    \/ Return

SpecList == InitList /\ [][NextList]_vars

----------------------------------------------------------------------------
(* The helper functions on their own: Init draws an argument, the one      *)
(* action applies the function, and lastResponse holds call and result.    *)

\* the state of a service before a helper is called with `call`
HelperInit(call) ==
    /\ wallets = {}
    /\ transactions = {}
    /\ tasks = [t \in Tasks |-> NoTask]
    /\ callsLeft = 1
    /\ lastResponse = Response(call, {}, Pending)
    /\ backgroundSynced = {}
    /\ pendingTokenWrites = {}
    /\ version = "transaction.service.ts"

\* the helper returns `value`
HelperReturns(op, value) ==
    /\ lastResponse.op = op
    /\ lastResponse.result = Pending
    /\ callsLeft = 1
    /\ callsLeft' = 0
    /\ lastResponse' = [lastResponse EXCEPT !.result = Ok(value)]
    /\ UNCHANGED <<wallets, transactions, tasks, backgroundSynced,
                   pendingTokenWrites, version>>

\* the helper `op` has returned
Returned(op) == lastResponse.op = op /\ lastResponse.result.status = "ok"

MaxLogs == 2

\* a topic whose low 20 bytes are not an address
BadTopic == "0x0000zz"

LogAddresses == {TokenContract, "0xC0"}
LogTopics ==
    {<<TRANSFER_EVENT_SIGNATURE, TopicA, TopicB>>,
     <<OtherEventSignature, TopicA, TopicB>>,
     <<TRANSFER_EVENT_SIGNATURE, TopicA>>,
     <<TRANSFER_EVENT_SIGNATURE, TopicA, TopicB, TopicA>>,
     <<TRANSFER_EVENT_SIGNATURE, BadTopic, TopicB>>}
\* 0x16e360 = 1500000, 0x3e8 = 1000, and "0x", which BigInt rejects
LogData == {<<1, 6, 14, 3, 6, 0>>, <<3, 14, 8>>, << >>}
Logs == [address : LogAddresses, topics : LogTopics, data : LogData]

LogLists == UNION {[1..n -> Logs] : n \in 0..MaxLogs}

\* the receipts detectTokenTransfer is called with; None is null
Receipts ==
    {None} \cup {Some([status |-> 1, gasUsed |-> "21000", logs |-> ls]) :
                    ls \in LogLists}

InitDetect ==
    \E receipt \in Receipts :
        HelperInit([op |-> "detectTokenTransfer", receipt |-> receipt])

DetectTokenTransfer ==
    HelperReturns("detectTokenTransfer",
                  detectTokenTransfer(lastResponse.call.receipt))

NextDetect == DetectTokenTransfer

SpecDetect == InitDetect /\ [][NextDetect]_vars

\* enrichTransactionWithTokenInfo: the transactions it is given carry no
\* tokenTransfer; the receipt call fails or answers null or a receipt; each
\* of the three metadata calls succeeds or fails
EnrichInputs == {EtherscanEntry(h) : h \in Hashes}
MetadataCalls == {"name", "symbol", "decimals"}
ReceiptAnswers ==
    {[fetch |-> "fail", receipt |-> None]}
        \cup {[fetch |-> "ok", receipt |-> r] : r \in Receipts}

InitEnrich ==
    \E tx \in EnrichInputs, answer \in ReceiptAnswers, fulfilled \in SUBSET MetadataCalls :
        HelperInit([op |-> "enrichTransactionWithTokenInfo", tx |-> tx,
                    answer |-> answer, fulfilled |-> fulfilled])

EnrichTransactionWithTokenInfo ==
    HelperReturns("enrichTransactionWithTokenInfo",
                  EnrichWithReceipt(lastResponse.call.tx,
                                    lastResponse.call.answer.receipt,
                                    lastResponse.call.fulfilled))

NextEnrich == EnrichTransactionWithTokenInfo

SpecEnrich == InitEnrich /\ [][NextEnrich]_vars

\* getTokenMetadata: what the three calls return when they succeed, which
\* of them succeed, and whether the contract object can be built
MetadataValues ==
    [name : {"Token", ""}, symbol : {"TKN", "C0"}, decimals : {0, 6, DefaultDecimals}]

InitMeta ==
    \E values \in MetadataValues, fulfilled \in SUBSET MetadataCalls,
       contract \in {"ok", "throw"} :
        HelperInit([op |-> "getTokenMetadata", values |-> values,
                    fulfilled |-> fulfilled, contract |-> contract])

GetTokenMetadata ==
    HelperReturns("getTokenMetadata",
                  IF lastResponse.call.contract = "throw" THEN EmptyMetadata
                  ELSE SettledMetadata(lastResponse.call.values,
                                       lastResponse.call.fulfilled))

NextMeta == GetTokenMetadata

SpecMeta == InitMeta /\ [][NextMeta]_vars

\* ethers.formatUnits on a raw token amount.  A uint256 exceeds the
\* integers TLC computes with, so the amount is given by its decimal string.
MaxDigits == 3

DecimalStrings(n) ==
    {[k \in 1..n |-> DigitChar(ds[k])] :
        ds \in {d \in [1..n -> 0..9] : n = 1 \/ d[1] # 0}}

\* 1500000 and 1500000000000000000 as decimal strings
OneAndAHalfAt6 == <<"1", "5", "0", "0", "0", "0", "0">>
OneAndAHalfAt18 == OneAndAHalfAt6 \o [k \in 1..12 |-> "0"]

RawAmounts ==
    UNION {DecimalStrings(n) : n \in 1..MaxDigits}
        \cup {OneAndAHalfAt6, OneAndAHalfAt18}
TokenDecimals == {0, 1, 2, 3, 6, DefaultDecimals}

InitFormat ==
    \E raw \in RawAmounts, decimals \in TokenDecimals :
        HelperInit([op |-> "formatUnits", raw |-> raw, decimals |-> decimals])

FormatUnits ==
    HelperReturns("formatUnits",
                  FormatDecimalString(lastResponse.call.raw,
                                      lastResponse.call.decimals))

NextFormat == FormatUnits

SpecFormat == InitFormat /\ [][NextFormat]_vars

\* the page arithmetic of getTransactions on a filtered list of n entries
MaxFiltered == 25
MaxPage == 4
PageLimits == {1, 2, 3, 10, 20, 100}

InitPaginate ==
    \E n \in 0..MaxFiltered, limit \in PageLimits, page \in 1..MaxPage :
        HelperInit([op |-> "paginate", allTransactions |-> [k \in 1..n |-> k],
                    limit |-> limit, page |-> page])

PaginateList ==
    HelperReturns("paginate",
                  Paginate(lastResponse.call.allTransactions,
                           lastResponse.call.page, lastResponse.call.limit))

NextPaginate == PaginateList

SpecPaginate == InitPaginate /\ [][NextPaginate]_vars

----------------------------------------------------------------------------
(* getTransactions over a filled cache.  Besides h1 and h2 the cache may   *)
(* hold two transactions of earlier blocks that the provider has no        *)
(* receipt for; each cached transaction is linked to one of the two        *)
(* wallets, and the requested wallet has at least one.                     *)

MaxLimit == 2

CachedHashes == {"h1", "h2", "h3", "h4"}

\* the transaction a cached row was written from
CachedTx(h) ==
    CASE h = "h3" -> [EtherscanEntry("h2") EXCEPT !.hash = "h3", !.blockNumber = 7,
                                                  !.timestamp = 1500]
      [] h = "h4" -> [EtherscanEntry("h1") EXCEPT !.hash = "h4", !.blockNumber = 2,
                                                  !.timestamp = 500]
      [] OTHER -> EtherscanEntry(h)

\* the row the reconciliation loop wrote for it, with or without token columns
CachedRow(h, address, withToken) ==
    LET tx == IF withToken
              THEN enrichTransactionWithTokenInfo(CachedTx(h), Sepolia,
                       [receipt |-> "ok", meta |-> {"name", "symbol", "decimals"}])
              ELSE CachedTx(h)
    IN CreateRow(UpsertData(tx, Sepolia, NewWallet({}, address).id, TRUE))

InitCached ==
    /\ wallets = {NewWallet({}, toLowerCase(AddrA)), NewWallet({}, toLowerCase(AddrB))}
    /\ \E link \in [CachedHashes -> {"none", toLowerCase(AddrA), toLowerCase(AddrB)}],
          withToken \in BOOLEAN :
          /\ \E h \in CachedHashes : link[h] = toLowerCase(AddrA)
          /\ transactions = {CachedRow(h, link[h], withToken) :
                                h \in {g \in CachedHashes : link[g] # "none"}}
    /\ tasks = [t \in Tasks |-> NoTask]
    /\ callsLeft = 1
    /\ lastResponse = NoResponse
    /\ backgroundSynced = {}
    /\ pendingTokenWrites = {}
    /\ version = "transaction.service.ts"

NextCached ==
    \/ \E address \in {AddrA, toLowerCase(AddrA)}, type \in Types,
          limit \in 1..MaxLimit, page \in 1..MaxPage :
          GetTransactions(address, type, limit, page, Sepolia)
    \/ CacheTokenInfo
    \/ Return

SpecCached == InitCached /\ [][NextCached]_vars

----------------------------------------------------------------------------
(* fetchTransactionsFromEtherscan over every HTTP exchange: with or        *)
(* without an API key, a rejected fetch, an undecodable body, each status  *)
(* flag and each shape of data.result, the entries in any order.           *)

MaxItems == 3    \* entries in one indexer result
FetchLimits == {1, 2, SyncLimit}

RECURSIVE ItemLists(_)
ItemLists(n) ==
    IF n = 0 THEN {<< >>}
    ELSE LET shorter == ItemLists(n - 1)
         IN shorter \cup {Append(l, h) : l \in shorter,
                                         h \in Hashes \cup {MalformedEntry}}

ResultShapes ==
    {[kind |-> k, items |-> << >>] : k \in {"string", "undefined", "object"}}
    \cup {ArrayResult(items) : items \in ItemLists(MaxItems)}

IndexerReplies ==
    [key : BOOLEAN, http : {"ok", "throw"}, json : {"ok", "throw"},
     status : StatusFlags, result : ResultShapes]

InitIndexer ==
    \E limit \in FetchLimits, answer \in IndexerReplies :
        HelperInit([op |-> "fetchTransactionsFromEtherscan",
                    address |-> toLowerCase(AddrA), limit |-> limit,
                    chainId |-> Sepolia, answer |-> answer])

FetchTransactionsFromEtherscan ==
    HelperReturns("fetchTransactionsFromEtherscan",
        [requests |-> EtherscanRequests(lastResponse.call.answer),
         transactions |->
            fetchTransactionsFromEtherscan(lastResponse.call.address,
                                           lastResponse.call.limit,
                                           lastResponse.call.chainId,
                                           lastResponse.call.answer)])

NextIndexer == FetchTransactionsFromEtherscan

SpecIndexer == InitIndexer /\ [][NextIndexer]_vars

----------------------------------------------------------------------------
(* fetchTransactionsFromBlockchain over chains of several heights, the     *)
(* two transactions mined in any block (or absent), and every behaviour    *)
(* of the provider: getBlockNumber failing, block fetches failing or       *)
(* timing out, receipts returned, null, or failing.                        *)

MaxHeight == 6    \* the current block number of the low chains

\* a chain higher than the scan window
DeepHeight == maxBlocksToCheck + 1000

ReceiptOutcomes == {"ok", "null", "throw"}

\* the first two blocks a scan asks for
FirstBlocks(currentBlock) == {currentBlock, currentBlock - blockStep}

LowScans ==
    UNION {[world : [currentBlock : {c}, creationBlock : {-1, c},
                     blockOf : [Hashes -> -1..c]],
            address : {toLowerCase(AddrA), toLowerCase(TokenContract)},
            limit : FetchLimits,
            env : [blockNumber : BOOLEAN,
                   badBlocks : SUBSET FirstBlocks(c),
                   receipts : [Hashes -> ReceiptOutcomes]]] : c \in 0..MaxHeight}

\* the blocks at the edges of the window of a deep chain
WindowEdges ==
    {DeepHeight, DeepHeight - 1,
     DeepHeight - maxBlocksToCheck + blockStep, DeepHeight - maxBlocksToCheck}

DeepScans ==
    [world : [currentBlock : {DeepHeight}, creationBlock : {-1, DeepHeight},
              blockOf : [Hashes -> WindowEdges]],
     address : {toLowerCase(AddrA)},
     limit : {1, SyncLimit},
     env : [blockNumber : {TRUE},
            badBlocks : {{}, {DeepHeight}},
            receipts : {[h \in Hashes |-> "ok"]}]]

InitScan ==
    \E scan \in LowScans \cup DeepScans :
        HelperInit([op |-> "fetchTransactionsFromBlockchain",
                    world |-> scan.world, address |-> scan.address,
                    limit |-> scan.limit, chainId |-> Sepolia,
                    env |-> scan.env])

FetchTransactionsFromBlockchain ==
    HelperReturns("fetchTransactionsFromBlockchain",
        BlockScan(lastResponse.call.world, lastResponse.call.address,
                  lastResponse.call.limit, lastResponse.call.chainId,
                  lastResponse.call.env))

NextScan == FetchTransactionsFromBlockchain

SpecScan == InitScan /\ [][NextScan]_vars

----------------------------------------------------------------------------
(* NetworkConfigService: the map built by the constructor from the         *)
(* environment, and its getters, for supported and unsupported chain ids.  *)

\* configService.get(name): "" stands for an unset or empty variable
ConfiguredUrls(name) == {"", "https://rpc.example/" \o name}
ConfigEnvs ==
    [SEPOLIA_RPC_URL : ConfiguredUrls("SEPOLIA_RPC_URL"),
     ETHEREUM_RPC_URL : ConfiguredUrls("ETHEREUM_RPC_URL"),
     MAINNET_RPC_URL : ConfiguredUrls("MAINNET_RPC_URL")]

\* a || b on strings
OrElse(a, b) == IF a # "" THEN a ELSE b

\* the constructor's this.networks.set(11155111, ...) and set(1, ...)
NetworkMap(config) ==
    [chainId \in {Sepolia, Mainnet} |->
        IF chainId = Sepolia
        THEN [rpcUrl |-> OrElse(config.SEPOLIA_RPC_URL,
                           OrElse(config.ETHEREUM_RPC_URL,
                                  "https://eth-sepolia.g.alchemy.com/v2/demo")),
              etherscanChainId |-> "11155111",
              name |-> "Sepolia"]
        ELSE [rpcUrl |-> OrElse(config.MAINNET_RPC_URL,
                                "https://eth-mainnet.g.alchemy.com/v2/demo"),
              etherscanChainId |-> "1",
              name |-> "Mainnet"]]

\* Map.prototype.get: undefined when the key is absent
MapGet(map, key) == IF key \in DOMAIN map THEN Some(map[key]) ELSE None

\* a lookup without the default
LookupWithoutDefault(networks, chainId) == MapGet(networks, chainId)

\* getNetworkConfig(chainId)
getNetworkConfig(networks, chainId) ==
    LET config == MapGet(networks, chainId)
    IN IF config = None THEN MapGet(networks, Sepolia) ELSE config

\* a getter reading `field` of the entry; reading a field of undefined throws
ConfigField(networks, chainId, field) ==
    LET config == getNetworkConfig(networks, chainId)
    IN IF config = None THEN [threw |-> TRUE, value |-> ""]
       ELSE [threw |-> FALSE, value |-> TheValue(config)[field]]

getRpcUrl(networks, chainId) == ConfigField(networks, chainId, "rpcUrl")
getEtherscanChainId(networks, chainId) ==
    ConfigField(networks, chainId, "etherscanChainId")
getNetworkName(networks, chainId) == ConfigField(networks, chainId, "name")

\* getProvider(chainId): new ethers.JsonRpcProvider(getRpcUrl(chainId))
getProvider(networks, chainId) == getRpcUrl(networks, chainId)

MaxChainId == 6    \* the low chain ids looked up
RequestedChainIds ==
    (0..MaxChainId) \cup {-1, 137, Sepolia - 1, Sepolia, Sepolia + 1}

Getters ==
    {"getNetworkConfig", "getRpcUrl", "getEtherscanChainId", "getNetworkName",
     "getProvider"}

InitNetwork ==
    \E config \in ConfigEnvs, chainId \in RequestedChainIds, getter \in Getters :
        HelperInit([op |-> getter, networks |-> NetworkMap(config),
                    chainId |-> chainId])

\* the value a getter returns and the map it leaves
NetworkReturn(value) == [value |-> value, networks |-> lastResponse.call.networks]

GetNetworkConfig ==
    HelperReturns("getNetworkConfig",
        NetworkReturn(getNetworkConfig(lastResponse.call.networks,
                                       lastResponse.call.chainId)))
GetRpcUrl ==
    HelperReturns("getRpcUrl",
        NetworkReturn(getRpcUrl(lastResponse.call.networks,
                                lastResponse.call.chainId)))
GetEtherscanChainId ==
    HelperReturns("getEtherscanChainId",
        NetworkReturn(getEtherscanChainId(lastResponse.call.networks,
                                          lastResponse.call.chainId)))
GetNetworkName ==
    HelperReturns("getNetworkName",
        NetworkReturn(getNetworkName(lastResponse.call.networks,
                                     lastResponse.call.chainId)))
GetProvider ==
    HelperReturns("getProvider",
        NetworkReturn(getProvider(lastResponse.call.networks,
                                  lastResponse.call.chainId)))

NextNetwork ==
    \/ GetNetworkConfig
    \/ GetRpcUrl
    \/ GetEtherscanChainId
    \/ GetNetworkName
    \/ GetProvider

SpecNetwork == InitNetwork /\ [][NextNetwork]_vars

----------------------------------------------------------------------------
(* WalletController.getTransactions: from the query of the route to the    *)
(* arguments handed to WalletService.getTransactions.  A query field is    *)
(* absent (None) or an integer, as GetTransactionsQuery declares it.       *)

QueryLimits == {None} \cup {Some(n) : n \in {-1, 0, 1, 2, 20, 99, 100, 101, 1000}}
QueryPages == {None} \cup {Some(n) : n \in {-1, 0, 1, 2, 7}}
QueryChainIds == {None} \cup {Some(n) : n \in {0, Mainnet, 5, Sepolia}}
QueryTypes == {None, Some("sent"), Some("received")}
RouteAddresses == {AddrA, toLowerCase(AddrB), InvalidAddress, ""}

RouteQueries ==
    [type : QueryTypes, limit : QueryLimits, page : QueryPages,
     chainId : QueryChainIds]

\* /^0x[a-fA-F0-9]{40}$/.test(address) on the modelled strings
MatchesAddressPattern(address) ==
    address \in {"0xAA", "0xaa", "0xBB", "0xbb", "0xT0", "0xt0"}

\* a route that hands query.limit on when it is set
LimitAsGiven(query) ==
    IF IsSome(query.limit) THEN TheValue(query.limit) ELSE 20

\* query.limit && query.limit > 0 ? Math.min(query.limit, 100) : 20
RouteLimit(query) ==
    IF IsSome(query.limit) /\ TruthyNumber(TheValue(query.limit))
       /\ TheValue(query.limit) > 0
    THEN Min(TheValue(query.limit), 100) ELSE 20

\* query.page && query.page > 0 ? query.page : 1
RoutePage(query) ==
    IF IsSome(query.page) /\ TruthyNumber(TheValue(query.page))
       /\ TheValue(query.page) > 0
    THEN TheValue(query.page) ELSE 1

\* query.chainId || 11155111
RouteChainId(query) ==
    IF IsSome(query.chainId) /\ TruthyNumber(TheValue(query.chainId))
    THEN TheValue(query.chainId) ELSE Sepolia

\* the handler: BadRequestException, or the call of the service
RouteGetTransactions(address, query) ==
    IF ~TruthyString(address) \/ ~MatchesAddressPattern(address)
    THEN [status |-> 400, message |-> "Invalid Ethereum address"]
    ELSE [status |-> 200, address |-> address, type |-> query.type,
          limit |-> RouteLimit(query), page |-> RoutePage(query),
          chainId |-> RouteChainId(query)]

InitRoute ==
    \E address \in RouteAddresses, query \in RouteQueries :
        HelperInit([op |-> "WalletController.getTransactions",
                    address |-> address, query |-> query])

ControllerGetTransactions ==
    HelperReturns("WalletController.getTransactions",
        RouteGetTransactions(lastResponse.call.address, lastResponse.call.query))

NextRoute == ControllerGetTransactions

SpecRoute == InitRoute /\ [][NextRoute]_vars

----------------------------------------------------------------------------
(* The cache round trip of token info: a tokenTransfer as enrichment       *)
(* builds it is written by the sync's upsert and read back by              *)
(* getTransactions.                                                        *)

TransferAmounts == {0, 5, 1500000}

\* every tokenTransfer enrichment can build for the detected transfer
BuiltTransfers ==
    {TokenTransferOf([contractAddress |-> TokenContract, amount |-> amount],
                     SettledMetadata(values, fulfilled)) :
        amount \in TransferAmounts, values \in MetadataValues,
        fulfilled \in SUBSET MetadataCalls}

\* the sync's upsert of the enriched transaction into an empty table, then
\* the mapping of the stored row by getTransactions
StoreAndReadBack(tx, chainId) ==
    LET wallet == NewWallet({}, toLowerCase(tx.from))
        written == transactionUpsert({}, UpsertData(tx, chainId, wallet.id, TRUE))
        rows == WalletTransactions(written.table, wallet.id, chainId)
    IN [k \in 1..Len(rows) |-> RowToResponse(rows[k])]

InitRoundTrip ==
    \E h \in Hashes, tt \in BuiltTransfers :
        HelperInit([op |-> "roundTrip",
                    tx |-> [EtherscanEntry(h) EXCEPT !.tokenTransfer = Some(tt)],
                    chainId |-> Sepolia])

RoundTrip ==
    HelperReturns("roundTrip",
        StoreAndReadBack(lastResponse.call.tx, lastResponse.call.chainId))

NextRoundTrip == RoundTrip

SpecRoundTrip == InitRoundTrip /\ [][NextRoundTrip]_vars

----------------------------------------------------------------------------
(* getTransactionByHash twice for one (hash, chainId): the on-chain path   *)
(* with its cache write, then the cached path.                             *)

\* transactions the provider may hold: gas prices, receipt statuses and
\* block numbers beyond those of the modelled chain
GasPrices == {"20", "0"}
ReceiptStatuses == {0, 1}
ErrorFlags == {"0", "1"}
BlockNumbers == {0, 10}
MinedTransactions ==
    {[ChainTx(h) EXCEPT !.gasPrice = g, !.receiptStatus = s, !.blockNumber = b,
                        !.isError = e] :
        h \in Hashes, g \in GasPrices, s \in ReceiptStatuses, b \in BlockNumbers,
        e \in ErrorFlags}

\* provider.getTransactionReceipt for such a transaction
ReceiptOf(tx, outcome) ==
    IF outcome = "ok"
    THEN Some([status |-> tx.receiptStatus, gasUsed |-> tx.gasUsed, logs |-> tx.logs])
    ELSE None

\* the first call resolves tx on-chain and caches it in an empty store; the
\* second call finds the row and answers from its columns
LookupTwice(tx, receipt, block, chainId, meta, env) ==
    LET first == ResponseFromChain(tx, ReceiptOf(tx, receipt),
                     IF block = "ok" THEN BlockTimestamp(tx.blockNumber) ELSE 0, meta)
        wallet == NewWallet({}, toLowerCase(first.from))
        written == transactionUpsert({},
                       UpsertData(first, chainId, wallet.id, CacheWritesToken))
        cachedTx == transactionFindFirst(written.table, first.hash, chainId)
    IN [first |-> first,
        cached |-> cachedTx # None,
        second |-> IF cachedTx = None THEN None
                   ELSE Some(enrichTransactionWithTokenInfo(
                            RowToBaseResponse(TheValue(cachedTx)), chainId, env))]

InitLookupTwice ==
    \E tx \in MinedTransactions, receipt \in {"ok", "null"}, block \in {"ok", "null"},
       chainId \in ChainIds, meta \in MetaOutcomes, env \in EnrichOutcomes :
        HelperInit([op |-> "lookupTwice", tx |-> tx, receipt |-> receipt,
                    block |-> block, chainId |-> chainId, meta |-> meta, env |-> env])

GetTransactionByHashTwice ==
    LET call == lastResponse.call
    IN HelperReturns("lookupTwice",
           LookupTwice(call.tx, call.receipt, call.block, call.chainId,
                       call.meta, call.env))

NextLookupTwice == GetTransactionByHashTwice

SpecLookupTwice == InitLookupTwice /\ [][NextLookupTwice]_vars

----------------------------------------------------------------------------
(* The three places that normalize a transaction: the indexer fetch, the   *)
(* block scan and the on-chain hash lookup.                                *)

InitNormalize ==
    \E fetcher \in {"indexer", "scan", "lookup"}, tx \in MinedTransactions,
       receipt \in {"ok", "null"} :
        HelperInit([op |-> fetcher, tx |-> tx, receipt |-> receipt])

\* fetchTransactionsFromEtherscan pushes the record
NormalizeIndexerRecord ==
    HelperReturns("indexer", EtherscanEntryOf(lastResponse.call.tx))

\* fetchTransactionsFromBlockchain pushes the transaction of a scanned block
NormalizeScanned ==
    LET call == lastResponse.call
    IN HelperReturns("scan",
           ScanEntryOf(call.tx, ReceiptOf(call.tx, call.receipt), call.tx.blockNumber))

\* getTransactionByHash builds its response on the on-chain path
NormalizeLookup ==
    LET call == lastResponse.call
    IN HelperReturns("lookup",
           ResponseFromChain(call.tx, ReceiptOf(call.tx, call.receipt),
                             BlockTimestamp(call.tx.blockNumber), {}))

NextNormalize ==
    \/ NormalizeIndexerRecord
    \/ NormalizeScanned
    \/ NormalizeLookup

SpecNormalize == InitNormalize /\ [][NextNormalize]_vars

----------------------------------------------------------------------------
(* Properties.                                                             *)

\* the task of slot t after a step that slot t took
PostTask(t) == IF tasks'[t].op = "none" THEN lastResponse'.task ELSE tasks'[t]

\* slot t performed a successful reconciliation upsert in this step
Wrote(t) ==
    /\ tasks[t].pc \in {"upsert", "cacheUpsert"}
    /\ tasks'[t] # tasks[t]
    /\ PostTask(t).upserted # tasks[t].upserted

\* ... and the row it wrote was already stored: a second write of the key
WroteAgain(t) ==
    /\ Wrote(t)
    /\ RowsWithKey(transactions, TheValue(PostTask(t).lastWrite).hash,
                   TheValue(PostTask(t).lastWrite).chainId) # {}

\* the non-token columns of the row are those of the payload
CarriesFields(row, data) ==
    /\ row.hash = data.hash /\ row.chainId = data.chainId
    /\ row.fromAddress = data.fromAddress /\ row.toAddress = data.toAddress
    /\ row.amount = data.amount /\ row.blockNumber = data.blockNumber
    /\ row.gasUsed = data.gasUsed /\ row.gasPrice = data.gasPrice
    /\ row.timestamp = data.timestamp /\ row.status = data.status
    /\ row.walletId = data.walletId

\* the token columns a payload carries (all null when it carries none)
CarriedToken(data) == IF IsSome(data.token) THEN TheValue(data.token) ELSE NullToken

\* C1 as stated: after a second write of a (hash, chainId) through the
\* reconciliation upsert exactly one row has that key, and every column of
\* it, token columns included, has the value the second write carries.
C1_EveryFieldOfSecondWrite ==
    [][\A t \in Tasks : WroteAgain(t) =>
          LET data == TheValue(PostTask(t).lastWrite)
              after == RowsWithKey(transactions', data.hash, data.chainId)
          IN /\ Cardinality(after) = 1
             /\ \A row \in after : /\ CarriesFields(row, data)
                                   /\ row.token = CarriedToken(data)]_vars

\* C1 amended: after a second write of a (hash, chainId) exactly one row has
\* that key; its non-token columns and its wallet link are those of the
\* second write; its token columns are those of the second write when that
\* write carries a token transfer, and are left as they were when it does not.
C1_SecondWriteWins ==
    [][\A t \in Tasks : WroteAgain(t) =>
          LET data == TheValue(PostTask(t).lastWrite)
              before == RowsWithKey(transactions, data.hash, data.chainId)
              after == RowsWithKey(transactions', data.hash, data.chainId)
          IN /\ Cardinality(after) = 1
             /\ \A row \in after :
                   /\ CarriesFields(row, data)
                   /\ IsSome(data.token) => row.token = TheValue(data.token)
                   /\ data.token = None => \A old \in before : row.token = old.token]_vars

\* a sync has just completed whose last write carried no token columns onto
\* a row that has them, and moved the row to its own wallet
C1_Witness ==
    /\ lastResponse.op \in {"syncTransactions", "syncTransactionsInBackground"}
    /\ IsSome(lastResponse.task.lastWrite)
    /\ TheValue(lastResponse.task.lastWrite).token = None
    /\ \E row \in transactions :
          /\ row.hash = TheValue(lastResponse.task.lastWrite).hash
          /\ row.chainId = TheValue(lastResponse.task.lastWrite).chainId
          /\ row.walletId = TheValue(lastResponse.task.lastWrite).walletId
          /\ IsSome(row.token.tokenContractAddress)

\* C2: in every reachable state no two stored transaction rows have the
\* same (hash, chainId).
C2_UniqueHashChainId ==
    \A r1 \in transactions, r2 \in transactions :
        (r1.hash = r2.hash /\ r1.chainId = r2.chainId) => r1 = r2

\* a transaction written by wallet A's background sync has been ingested
\* again for wallet B, and another row is stored beside it
C2_Witness ==
    \E row \in transactions :
        /\ <<toLowerCase(AddrA), row.chainId, row.hash>> \in backgroundSynced
        /\ row.walletId = Some(NewWallet(wallets, toLowerCase(AddrB)).id)
        /\ Cardinality(transactions) = 2

\* this step is a call of `op` completing at once
Answers(op) == lastResponse = NoResponse /\ lastResponse'.op = op

\* the cause carried by a failure, reported or swallowed
CauseOf(result) ==
    CASE result.status = "error" -> result.message[2]
      [] result.status = "swallowed" -> result.cause
      [] OTHER -> ""

\* the wallet row of the address is absent, or has no transaction on the chain
NoCachedTransactions(address, chainId) ==
    \A w \in wallets : w.address = toLowerCase(address) =>
        \A r \in transactions : ~(r.walletId = Some(w.id) /\ r.chainId = chainId)

\* the slots taken in this step
Started == {t \in Tasks : tasks[t].op = "none" /\ tasks'[t].op # "none"}

SyncOps == {"syncTransactions", "syncTransactionsInBackground"}

\* C3: a getTransactions call for a valid address whose lookup finds no
\* cached transactions on the chain starts exactly one background sync, for
\* (lowercased address, chainId), and answers transactions = [], total = 0,
\* totalPages = 0, hasMore = false in the same step, writing nothing; and
\* a background sync never completes with a reported failure.
C3_EmptyCacheStartsOneSync ==
    [][/\ ( /\ Answers("getTransactions")
            /\ isAddress(lastResponse'.call.address)
            /\ NoCachedTransactions(lastResponse'.call.address,
                                    lastResponse'.call.chainId)
            /\ CauseOf(lastResponse'.result) # "store failure" )
          => /\ Cardinality(Started) = 1
             /\ \A t \in Started :
                   tasks'[t] = [NoTask EXCEPT
                       !.op = "syncTransactionsInBackground", !.pc = "start",
                       !.address = toLowerCase(lastResponse'.call.address),
                       !.chainId = lastResponse'.call.chainId]
             /\ \A t \in Tasks \ Started : tasks'[t] = tasks[t]
             /\ lastResponse'.result.status = "ok"
             /\ lastResponse'.result.value.transactions = << >>
             /\ lastResponse'.result.value.total = 0
             /\ lastResponse'.result.value.totalPages = 0
             /\ lastResponse'.result.value.hasMore = FALSE
             /\ UNCHANGED <<wallets, transactions, pendingTokenWrites>>
       /\ lastResponse'.op = "syncTransactionsInBackground"
          => lastResponse'.result.status \in {"ok", "swallowed"}]_vars

\* the empty answer has been given and the sync it started has not run yet
C3_Witness ==
    /\ lastResponse.op = "getTransactions"
    /\ lastResponse.result.status = "ok"
    /\ lastResponse.result.value.total = 0
    /\ "sync" \in lastResponse.effects
    /\ \E t \in Tasks : /\ tasks[t].op = "syncTransactionsInBackground"
                        /\ tasks[t].pc = "start"
                        /\ tasks[t].address = toLowerCase(lastResponse.call.address)

\* the hashes a getTransactions answer lists
ListedHashes(response) ==
    {response.result.value.transactions[k].hash :
        k \in 1..Len(response.result.value.transactions)}

\* C4, its first half: once the background sync of a previously unseen
\* wallet has completed with a non-empty list and every write successful,
\* every later unfiltered getTransactions answer for that address and chain
\* lists the synced transactions.
C4_SyncedTransactionsListed ==
    ( /\ lastResponse.op = "getTransactions"
      /\ lastResponse.result.status = "ok"
      /\ lastResponse.call.type = "all" )
    => \A s \in backgroundSynced :
          ( s[1] = toLowerCase(lastResponse.call.address)
            /\ s[2] = lastResponse.call.chainId )
          => s[3] \in ListedHashes(lastResponse)

\* every sync, in flight or just completed
Syncs ==
    {task \in {tasks[t] : t \in Tasks} \cup {lastResponse.task} : task.op \in SyncOps}

\* C5: in every sync the block scan runs if and only if the indexer fetch
\* returned an empty list; a non-empty indexer list is the list reconciled,
\* and every write of the sync is a transaction of that list.
C5_ScanIffIndexerEmpty ==
    \A task \in Syncs : task.fetched =>
        /\ task.scanned <=> task.etherscan = << >>
        /\ task.etherscan # << >> => task.transactions = task.etherscan
        /\ task.upserted \subseteq 1..Len(task.transactions)
        /\ IsSome(task.lastWrite) =>
              \E k \in task.upserted :
                  task.transactions[k].hash = TheValue(task.lastWrite).hash

\* a sync has completed that reconciled a non-empty indexer list without a
\* block scan
C5_Witness ==
    /\ lastResponse.op \in SyncOps
    /\ lastResponse.task.fetched
    /\ Len(lastResponse.task.etherscan) = 2
    /\ ~lastResponse.task.scanned
    /\ lastResponse.task.upserted = {1, 2}

\* the sync entered its reconciliation loop
Reconciled(task) ==
    task.op \in SyncOps /\ task.fetched /\ IsSome(task.wallet)
    /\ Len(task.transactions) > 0

\* C6: a sync that reconciles a batch completes without failure whatever
\* writes or enrichments failed; it has gone through the whole batch, every
\* transaction whose upsert succeeded is stored, and the count it keeps (and
\* syncTransactions returns) is the number of successful upserts.
C6_FailuresSkippedAndCounted ==
    Reconciled(lastResponse.task) =>
        /\ lastResponse.result.status = "ok"
        /\ lastResponse.task.i = Len(lastResponse.task.transactions)
        /\ lastResponse.task.upserted \subseteq 1..Len(lastResponse.task.transactions)
        /\ \A k \in lastResponse.task.upserted :
              RowsWithKey(transactions, lastResponse.task.transactions[k].hash,
                          lastResponse.task.chainId) # {}
        /\ lastResponse.task.synced = Cardinality(lastResponse.task.upserted)
        /\ lastResponse.op = "syncTransactions" =>
              lastResponse.result.value.synced = Cardinality(lastResponse.task.upserted)

\* a syncTransactions has completed whose first write failed and whose
\* second write succeeded
C6_Witness ==
    /\ lastResponse.op = "syncTransactions"
    /\ Len(lastResponse.task.transactions) = 2
    /\ lastResponse.task.upserted = {2}
    /\ lastResponse.result = Ok([synced |-> 1])

\* C7, as stated: a sync never ends, reported or swallowed, on a violated
\* unique constraint of the store.
C7_ConcurrentSyncsComplete ==
    lastResponse.op \in SyncOps =>
        CauseOf(lastResponse.result) # "Unique constraint failed"

\* the address or hash the completed operation was called with is well formed
WellFormedCall ==
    CASE lastResponse.op \in {"getBalance", "getTransactions"} ->
            isAddress(lastResponse.call.address)
      [] lastResponse.op = "syncTransactions" ->
            isAddress(lastResponse.task.address)
      [] lastResponse.op = "getTransactionByHash" -> TRUE
      [] OTHER -> FALSE

\* C8, as stated: a public operation called with a well-formed address or
\* hash fails with NotFound or not at all.
C8_OnlyNotFoundFails ==
    (WellFormedCall /\ lastResponse.result.status = "error")
        => lastResponse.result.name = "NotFoundException"

\* C9: getTransactionByHash for a key with no cached row and no transaction
\* on the chain, the lookup and the provider call not failing, ends with the
\* NotFoundException itself and the step writes nothing and starts nothing.
C9_NotFoundPropagated ==
    [][( /\ Answers("getTransactionByHash")
         /\ lastResponse'.task.hash \notin OnChain(lastResponse'.task.chainId)
         /\ RowsWithKey(transactions, lastResponse'.task.hash,
                        lastResponse'.task.chainId) = {}
         /\ CauseOf(lastResponse'.result) \notin {"store failure", "rpc failure"} )
       => /\ lastResponse'.result = NotFound(lastResponse'.task.hash)
          /\ lastResponse'.task.upserted = {}
          /\ UNCHANGED <<wallets, transactions, tasks, pendingTokenWrites>>]_vars

\* a lookup of the hash unknown to cache and chain has ended with NotFound
C9_Witness ==
    /\ lastResponse.op = "getTransactionByHash"
    /\ lastResponse.task.hash = UnknownHash
    /\ lastResponse.result.status = "error"
    /\ lastResponse.result.name = "NotFoundException"

\* C10: getBalance with a string that is not an address fails with the
\* 'Invalid Ethereum address' error, having obtained no provider, issued no
\* RPC call and touched no store, and leaves the wallet table unchanged.
C10_InvalidAddressRejected ==
    [][( Answers("getBalance") /\ ~isAddress(lastResponse'.call.address) )
       => /\ lastResponse'.result.status = "error"
          /\ lastResponse'.result.message[2] = "Invalid Ethereum address"
          /\ lastResponse'.effects = {}
          /\ UNCHANGED <<wallets, transactions, tasks>>]_vars

\* getBalance has been called with the malformed address and has failed
C10_Witness ==
    /\ lastResponse.op = "getBalance"
    /\ lastResponse.call.address = InvalidAddress
    /\ lastResponse.result.status = "error"

----------------------------------------------------------------------------
(* Token-transfer detection                                                *)

\* the logs of the receipt detectTokenTransfer was called with
DetectLogs ==
    IF lastResponse.call.receipt = None THEN << >>
    ELSE TheValue(lastResponse.call.receipt).logs

\* the transfer a log describes: its address, the addresses in the low 20
\* bytes of topics 1 and 2, and its data as an unsigned integer
TransferOfLog(log) ==
    [contractAddress |-> log.address,
     from |-> getAddress(Low20(log.topics[2])),
     to |-> getAddress(Low20(log.topics[3])),
     amount |-> BigIntOfHex(log.data)]

\* exactly 3 topics, the first being the Transfer signature
IsTransferLog(log) ==
    Len(log.topics) = 3 /\ log.topics[1] = TRANSFER_EVENT_SIGNATURE

\* topics 1 and 2 end in an address and the data is a hex integer
WellFormedTransfer(log) ==
    /\ isAddress(Low20(log.topics[2]))
    /\ isAddress(Low20(log.topics[3]))
    /\ log.data # << >>

\* C11 as stated: detectTokenTransfer reports the transfer of every sole
\* log that has 3 topics and the Transfer signature, and reports none for a
\* null receipt, for no logs and when no log has 3 topics and the signature.
C11_SoleTransferLogDetected ==
    Returned("detectTokenTransfer") =>
        LET logs == DetectLogs
            result == lastResponse.result.value
        IN /\ Len(logs) = 1 /\ IsTransferLog(logs[1])
                => result = Some(TransferOfLog(logs[1]))
           /\ (\A k \in 1..Len(logs) : ~IsTransferLog(logs[k])) => result = None

\* C11: detectTokenTransfer reports the transfer of a sole log that has 3
\* topics and the Transfer signature when its topics hold addresses and its
\* data is a hex integer, with contractAddress the log's address, from and to
\* the low 20 bytes of topics 1 and 2 and amount the data as an unsigned
\* integer; it reports none when that log does not parse, for a null
\* receipt, for no logs and when no log has 3 topics and the signature.
C11_SoleWellFormedTransferDetected ==
    Returned("detectTokenTransfer") =>
        LET logs == DetectLogs
            result == lastResponse.result.value
        IN /\ Len(logs) = 1 /\ IsTransferLog(logs[1])
                => /\ WellFormedTransfer(logs[1])
                        => /\ result = Some(TransferOfLog(logs[1]))
                           /\ toLowerCase(TheValue(result).from)
                                = Low20(logs[1].topics[2])
                           /\ toLowerCase(TheValue(result).to)
                                = Low20(logs[1].topics[3])
                   /\ ~WellFormedTransfer(logs[1]) => result = None
           /\ (\A k \in 1..Len(logs) : ~IsTransferLog(logs[k])) => result = None

\* a sole Transfer log of value 1000 was detected
C11_Witness ==
    /\ Returned("detectTokenTransfer")
    /\ Len(DetectLogs) = 1
    /\ IsTransferLog(DetectLogs[1])
    /\ DetectLogs[1].data = <<3, 14, 8>>
    /\ lastResponse.result.value =
          Some([contractAddress |-> DetectLogs[1].address, from |-> AddrA,
                to |-> AddrB, amount |-> 1000])

\* the indexes of the logs that match and parse
Detectable(logs) ==
    {k \in 1..Len(logs) : IsTransferLog(logs[k]) /\ WellFormedTransfer(logs[k])}

\* C12: detectTokenTransfer reports the lowest-index log that matches and
\* parses; logs before it that do not match or do not parse are passed over,
\* later matching logs are not reported, and without such a log the result
\* is none.
C12_FirstDetectableLogReported ==
    Returned("detectTokenTransfer") =>
        LET logs == DetectLogs
            result == lastResponse.result.value
        IN IF Detectable(logs) = {} THEN result = None
           ELSE LET first == CHOOSE k \in Detectable(logs) :
                                \A j \in Detectable(logs) : k <= j
                IN result = Some(TransferOfLog(logs[first]))

\* a matching log that does not parse was skipped and the next one reported
C12_Witness ==
    /\ Returned("detectTokenTransfer")
    /\ Len(DetectLogs) = 2
    /\ IsTransferLog(DetectLogs[1]) /\ ~WellFormedTransfer(DetectLogs[1])
    /\ IsTransferLog(DetectLogs[2]) /\ WellFormedTransfer(DetectLogs[2])
    /\ DetectLogs[1].address # DetectLogs[2].address
    /\ lastResponse.result.value = Some(TransferOfLog(DetectLogs[2]))

----------------------------------------------------------------------------
(* Enrichment                                                              *)

\* the arguments and the result of the enrichment that has returned
EnrichCall == lastResponse.call
EnrichLogs ==
    IF EnrichCall.answer.receipt = None THEN << >>
    ELSE TheValue(EnrichCall.answer.receipt).logs

\* the receipt call failed or answered null, or no log of the receipt has 3
\* topics and the Transfer signature
NothingToAttach ==
    \/ EnrichCall.answer.fetch = "fail"
    \/ EnrichCall.answer.receipt = None
    \/ \A k \in 1..Len(EnrichLogs) : ~IsTransferLog(EnrichLogs[k])

\* C13: enrichTransactionWithTokenInfo returns the transaction it was given,
\* every field unchanged and without tokenTransfer, whenever the receipt
\* call fails or answers null or the receipt holds no log of 3 topics with
\* the Transfer signature; it returns in every case.
C13_UnmodifiedWithoutTransfer ==
    /\ lastResponse.op = "enrichTransactionWithTokenInfo" /\ callsLeft = 0
          => Returned("enrichTransactionWithTokenInfo")
    /\ Returned("enrichTransactionWithTokenInfo") /\ NothingToAttach
          => /\ lastResponse.result.value = EnrichCall.tx
             /\ lastResponse.result.value.tokenTransfer = None

\* a receipt with logs, none of them a Transfer, left the transaction as
\* it was
C13_Witness ==
    /\ Returned("enrichTransactionWithTokenInfo")
    /\ EnrichCall.answer.fetch = "ok"
    /\ Len(EnrichLogs) = 2
    /\ \A k \in 1..2 : ~IsTransferLog(EnrichLogs[k])
    /\ EnrichCall.fulfilled = MetadataCalls
    /\ lastResponse.result.value = EnrichCall.tx

\* the decimals the decimals() call of a contract resolves to
ResolvedDecimals(contractAddress) ==
    IF contractAddress = TokenContract THEN 6 ELSE 0

C15_FieldPerSucceededCall ==
    /\ lastResponse.op = "getTokenMetadata" /\ callsLeft = 0
          => Returned("getTokenMetadata")
    /\ Returned("getTokenMetadata") /\ lastResponse.call.contract = "ok"
          => LET call == lastResponse.call
                 meta == lastResponse.result.value
             IN /\ meta.name = IF "name" \in call.fulfilled
                                THEN {call.values.name} ELSE {}
                /\ meta.symbol = IF "symbol" \in call.fulfilled
                                  THEN {call.values.symbol} ELSE {}
                /\ meta.decimals = IF "decimals" \in call.fulfilled
                                    THEN {call.values.decimals} ELSE {}

\* symbol() failed alone: name and decimals are returned, symbol is absent
C15_Witness ==
    /\ Returned("getTokenMetadata")
    /\ lastResponse.call.contract = "ok"
    /\ lastResponse.call.fulfilled = {"name", "decimals"}
    /\ lastResponse.result.value =
          [name |-> {"Token"}, symbol |-> {}, decimals |-> {6}]

----------------------------------------------------------------------------
(* Amount formatting                                                       *)

\* the position of the decimal point in a string, 0 when it has none
DotAt(str) ==
    IF \E k \in 1..Len(str) : str[k] = "."
    THEN CHOOSE k \in 1..Len(str) : str[k] = "." ELSE 0

RECURSIVE StripLeadingZeros(_)
\* the digits of a number without its leading zeros
StripLeadingZeros(str) ==
    IF Len(str) >= 2 /\ str[1] = "0" THEN StripLeadingZeros(Tail(str)) ELSE str

\* the decimal string `formatted` denotes exactly raw / 10^decimals: moving
\* its point `decimals` places to the right gives the digits of raw
DenotesExactly(formatted, raw, decimals) ==
    LET dot == DotAt(formatted)
        whole == SubSeq(formatted, 1, dot - 1)
        fraction == SubSeq(formatted, dot + 1, Len(formatted))
    IN /\ dot > 1
       /\ \A k \in 1..Len(formatted) : formatted[k] = "." => k = dot
       /\ Len(fraction) >= 1
       /\ Len(fraction) <= decimals
       /\ StripLeadingZeros(whole \o fraction
                              \o [k \in 1..(decimals - Len(fraction)) |-> "0"])
             = raw

\* C17: the formatted amount denotes exactly rawAmount / 10^decimals, with
\* no digit lost, for every raw amount and decimals count; 1500000000000000000
\* with 18 decimals and 1500000 with 6 decimals both give "1.5".
C17_FormattedAmountExact ==
    Returned("formatUnits") =>
        LET raw == lastResponse.call.raw
            decimals == lastResponse.call.decimals
            formatted == lastResponse.result.value
        IN /\ decimals = 0 => formatted = raw
           /\ decimals > 0 => DenotesExactly(formatted, raw, decimals)
           /\ raw = OneAndAHalfAt18 /\ decimals = 18 => formatted = <<"1", ".", "5">>
           /\ raw = OneAndAHalfAt6 /\ decimals = 6 => formatted = <<"1", ".", "5">>

\* 1500000000000000000 at 18 decimals was formatted as "1.5"
C17_Witness ==
    /\ Returned("formatUnits")
    /\ lastResponse.call.raw = OneAndAHalfAt18
    /\ lastResponse.call.decimals = 18
    /\ lastResponse.result.value = <<"1", ".", "5">>

----------------------------------------------------------------------------
(* The transaction list served from the cache                              *)

\* getTransactions has answered from a non-empty cache
ServedFromCache ==
    /\ lastResponse.op = "getTransactions"
    /\ lastResponse.result.status = "ok"
    /\ "sync" \notin lastResponse.effects

ListCall == lastResponse.call
ListResult == lastResponse.result.value

\* the cached rows of the requested wallet on the requested chain
CachedOf(address, chainId) ==
    {r \in transactions :
        /\ r.chainId = chainId
        /\ \E w \in wallets : w.address = toLowerCase(address) /\ r.walletId = {w.id}}

\* the rows in which the wallet is the sender (A) and the receiver (B)
SentBy(address, chainId) ==
    {r \in CachedOf(address, chainId) : toLowerCase(r.fromAddress) = toLowerCase(address)}
ReceivedBy(address, chainId) ==
    {r \in CachedOf(address, chainId) : toLowerCase(r.toAddress) = toLowerCase(address)}

\* the rows a request of the given type is to select
Selected(address, type, chainId) ==
    CASE type = "sent" -> SentBy(address, chainId)
      [] type = "received" -> ReceivedBy(address, chainId)
      [] OTHER -> SentBy(address, chainId) \cup ReceivedBy(address, chainId)

\* the place of a row in the descending-timestamp order of a set of rows
PlaceIn(rows, r) == 1 + Cardinality({q \in rows : q.timestamp > r.timestamp})

\* the hashes of the rows placed in the page's range, and of the page returned
HashesOfPage(rows, page, limit) ==
    {r.hash : r \in {q \in rows : /\ PlaceIn(rows, q) > (page - 1) * limit
                                   /\ PlaceIn(rows, q) <= page * limit}}
ReturnedHashes == {ListResult.transactions[k].hash : k \in 1..Len(ListResult.transactions)}

\* the receipt of the transaction holds a Transfer log that parses
HasTransferLog(hash, chainId) ==
    /\ Receipt(hash, chainId) # None
    /\ Detectable(TheValue(Receipt(hash, chainId)).logs) # {}

\* C16: a getTransactions request on a non-empty cache fails only on the
\* store, whichever enrichments fail; its response holds exactly the page's
\* transactions in the order of the slice, each transaction whose
\* enrichment failed comes without tokenTransfer, and every other one whose
\* receipt has a Transfer log comes with tokenTransfer.
C16_EnrichmentFailuresDoNotAbort ==
    /\ lastResponse.op = "getTransactions" /\ lastResponse.result.status = "error"
          => /\ lastResponse.enrichFailed = {}
             /\ CauseOf(lastResponse.result) \in {"store failure", "Invalid Ethereum address"}
    /\ ServedFromCache
          => LET rows == Selected(ListCall.address, ListCall.type, ListCall.chainId)
                 txs == ListResult.transactions
             IN /\ ReturnedHashes = HashesOfPage(rows, ListCall.page, ListCall.limit)
                /\ \A k \in 1..Len(txs) :
                      /\ \E r \in rows :
                            /\ r.hash = txs[k].hash
                            /\ PlaceIn(rows, r) = (ListCall.page - 1) * ListCall.limit + k
                      /\ txs[k].hash \in lastResponse.enrichFailed
                            => txs[k].tokenTransfer = None
                      /\ (txs[k].hash \notin lastResponse.enrichFailed
                            /\ HasTransferLog(txs[k].hash, ListCall.chainId))
                            => IsSome(txs[k].tokenTransfer)

\* a page of two: the enrichment of the plain transaction failed, the token
\* transaction next to it was enriched
C16_Witness ==
    /\ ServedFromCache
    /\ Len(ListResult.transactions) = 2
    /\ lastResponse.enrichFailed = {ListResult.transactions[2].hash}
    /\ ListResult.transactions[2].tokenTransfer = None
    /\ ListResult.transactions[1].hash = "h1"
    /\ IsSome(ListResult.transactions[1].tokenTransfer)
    /\ \E r \in transactions : r.hash = "h1" /\ r.token = NullToken

\* C18: with the wallet the sender exactly in A and the receiver exactly in
\* B, A and B disjoint, type 'sent' selects exactly A, type 'received'
\* exactly B and no type A \cup B, whatever the spelling of the address:
\* total counts the selected set, the page holds only members of it, and a
\* first page that is long enough holds all of it.
C18_FilterSelectsDirection ==
    ServedFromCache
      /\ SentBy(ListCall.address, ListCall.chainId)
            \cap ReceivedBy(ListCall.address, ListCall.chainId) = {}
      => LET A == SentBy(ListCall.address, ListCall.chainId)
             B == ReceivedBy(ListCall.address, ListCall.chainId)
             chosen == CASE ListCall.type = "sent" -> A
                         [] ListCall.type = "received" -> B
                         [] OTHER -> A \cup B
         IN /\ ListResult.total = Cardinality(chosen)
            /\ ReturnedHashes \subseteq {r.hash : r \in chosen}
            /\ ListCall.page = 1 /\ Cardinality(chosen) <= ListCall.limit
                  => ReturnedHashes = {r.hash : r \in chosen}

\* the checksummed spelling of the address, type 'received': one of two
\* cached transactions selected
C18_Witness ==
    /\ ServedFromCache
    /\ ListCall.address = AddrA
    /\ ListCall.type = "received"
    /\ ListCall.page = 1
    /\ Cardinality(CachedOf(AddrA, Sepolia)) = 2
    /\ Cardinality(SentBy(AddrA, Sepolia)) = 1
    /\ ListResult.total = 1
    /\ ReturnedHashes = {r.hash : r \in ReceivedBy(AddrA, Sepolia)}

\* the least number of pages of `limit` entries that hold n entries
PagesFor(n, limit) == CHOOSE m \in 0..n : m * limit >= n /\ (m = 0 \/ (m - 1) * limit < n)

\* C19: for a filtered list of n transactions, a limit in 1..100 and a page
\* >= 1, total = n, totalPages = ceil(n / limit), hasMore = (page <
\* totalPages) and the slice holds min(limit, max(0, n - (page-1)*limit))
\* transactions, those from place (page-1)*limit + 1 on; n = 25 and limit =
\* 10 give 5 transactions, 3 pages and no more on page 3, more on page 1,
\* and nothing on page 4.
C19_PageArithmetic ==
    Returned("paginate") =>
        LET list == lastResponse.call.allTransactions
            n == Len(list)
            limit == lastResponse.call.limit
            page == lastResponse.call.page
            out == lastResponse.result.value
            rest == n - (page - 1) * limit
            size == Min(limit, Max(0, rest))
        IN /\ out.total = n
           /\ out.totalPages = PagesFor(n, limit)
           /\ out.hasMore = (page < PagesFor(n, limit))
           /\ Len(out.transactions) = size
           /\ \A k \in 1..size : out.transactions[k] = list[(page - 1) * limit + k]
           /\ n = 25 /\ limit = 10
                 => /\ out.totalPages = 3
                    /\ page = 1 => out.hasMore /\ Len(out.transactions) = 10
                    /\ page = 3 => ~out.hasMore /\ Len(out.transactions) = 5
                    /\ page = 4 => out.transactions = << >>

\* page 3 of 25 transactions at limit 10: five transactions, no more pages
C19_Witness ==
    /\ Returned("paginate")
    /\ Len(lastResponse.call.allTransactions) = 25
    /\ lastResponse.call.limit = 10
    /\ lastResponse.call.page = 3
    /\ lastResponse.result.value.transactions = <<21, 22, 23, 24, 25>>
    /\ lastResponse.result.value.totalPages = 3
    /\ ~lastResponse.result.value.hasMore

\* C20: the direction filter comes before the slice.  Against the cache it
\* was read from, the response for page p holds the p-th run of `limit`
\* transactions of the filtered list in descending-timestamp order, so the
\* pages 1..totalPages together hold every filtered transaction once and
\* none of the other direction; total and totalPages are those of the
\* filtered list.
C20_FilterBeforeSlice ==
    ServedFromCache =>
        LET rows == Selected(ListCall.address, ListCall.type, ListCall.chainId)
            n == Cardinality(rows)
            txs == ListResult.transactions
            first == (ListCall.page - 1) * ListCall.limit
        IN /\ ListResult.total = n
           /\ ListResult.totalPages = PagesFor(n, ListCall.limit)
           /\ Len(txs) = Min(ListCall.limit, Max(0, n - first))
           /\ \A k \in 1..Len(txs) :
                 \E r \in rows : r.hash = txs[k].hash /\ PlaceIn(rows, r) = first + k
           /\ \A k \in 1..Len(txs) : \A j \in 1..Len(txs) :
                 k < j => txs[k].timestamp > txs[j].timestamp

\* page 2 of the received transactions, one per page, out of a cache whose
\* newest transaction was sent
C20_Witness ==
    /\ ServedFromCache
    /\ ListCall.type = "received"
    /\ ListCall.limit = 1
    /\ ListCall.page = 2
    /\ Cardinality(CachedOf(ListCall.address, Sepolia)) = 4
    /\ ListResult.total = 2
    /\ ListResult.totalPages = 2
    /\ ReturnedHashes = {"h2"}

----------------------------------------------------------------------------
(* C21: the indexer fetch returns the empty list on every failure          *)

IndexerCall == lastResponse.call
IndexerReturn == lastResponse.result.value

\* one of the cases the fetch answers with the empty list
IndexerFailure(answer) ==
    \/ ~answer.key
    \/ answer.http = "throw"
    \/ answer.json = "throw"
    \/ answer.status \in {"'0'", "0"}
    \/ answer.result.kind \in {"string", "undefined", "object"}
    \/ answer.result.items = << >>

\* C21: fetchTransactionsFromEtherscan always returns a list; the list is
\* empty when no API key is configured (and then no HTTP request is
\* issued), when the HTTP call or the JSON decoding fails, when the status
\* flag is 0, and when the result is a string, not an array or empty.
C21_IndexerFailuresGiveEmptyList ==
    Returned("fetchTransactionsFromEtherscan") =>
        /\ IndexerReturn.transactions \in Seq(
                {EtherscanEntry(h) : h \in Hashes})
        /\ IndexerFailure(IndexerCall.answer) =>
                IndexerReturn.transactions = << >>
        /\ ~IndexerCall.answer.key => IndexerReturn.requests = 0

\* the fetch has returned for an exchange with a key, a status flag of 0
\* and a non-empty array
C21_Witness ==
    /\ Returned("fetchTransactionsFromEtherscan")
    /\ IndexerCall.answer.key
    /\ IndexerCall.answer.http = "ok"
    /\ IndexerCall.answer.json = "ok"
    /\ IndexerCall.answer.status = "0"
    /\ IndexerCall.answer.result.items # << >>
    /\ IndexerReturn.requests = 1
    /\ IndexerReturn.transactions = << >>

----------------------------------------------------------------------------
(* C22: the fetchers' lists are bounded, newest first and unenriched       *)

Bounded(list, limit) == Len(list) <= limit
NewestFirst(list) ==
    \A k \in 1..Len(list) - 1 : list[k].timestamp >= list[k + 1].timestamp
Unenriched(list) == \A k \in 1..Len(list) : list[k].tokenTransfer = None

\* C22: for every response of the indexer, the list returned by
\* fetchTransactionsFromEtherscan has at most `limit` entries, is ordered
\* by non-increasing timestamp and carries no tokenTransfer.
C22_IndexerListBoundedNewestFirst ==
    Returned("fetchTransactionsFromEtherscan") =>
        /\ Bounded(IndexerReturn.transactions, IndexerCall.limit)
        /\ NewestFirst(IndexerReturn.transactions)
        /\ Unenriched(IndexerReturn.transactions)

\* The block scan's half of C22: for every behaviour of the provider the
\* list returned by fetchTransactionsFromBlockchain has at most `limit`
\* entries, is ordered by non-increasing timestamp and carries no
\* tokenTransfer.
ScanListBoundedNewestFirst ==
    Returned("fetchTransactionsFromBlockchain") =>
        /\ Bounded(lastResponse.result.value.transactions, lastResponse.call.limit)
        /\ NewestFirst(lastResponse.result.value.transactions)
        /\ Unenriched(lastResponse.result.value.transactions)

\* The indexer's half of C22 without the order: the length bound and the
\* absence of tokenTransfer hold for every response.
IndexerListBoundedUnenriched ==
    Returned("fetchTransactionsFromEtherscan") =>
        /\ Bounded(IndexerReturn.transactions, IndexerCall.limit)
        /\ Unenriched(IndexerReturn.transactions)

----------------------------------------------------------------------------
(* C23, C24, C25: the block scan                                           *)

ScanCall == lastResponse.call
ScanReturn == lastResponse.result.value
ScanHashes == {ScanReturn.transactions[k].hash : k \in 1..Len(ScanReturn.transactions)}
RequestedBlocks == {ScanReturn.requested[k].block : k \in 1..Len(ScanReturn.requested)}

\* the maxBlocksToCheck most recent blocks
InWindow(n) ==
    /\ n >= 0
    /\ n <= ScanCall.world.currentBlock
    /\ n > ScanCall.world.currentBlock - maxBlocksToCheck

\* the transactions of the window whose sender or receiver is the address
MatchingInWindow ==
    {h \in Hashes : /\ InWindow(ScanCall.world.blockOf[h])
                    /\ Involves(h, ScanCall.address)}

EveryFetchSucceeds ==
    /\ ScanCall.env.blockNumber
    /\ ScanCall.env.badBlocks = {}
    /\ \A h \in Hashes : ScanCall.env.receipts[h] = "ok"

\* C23: when every block and receipt fetch succeeds and the wallet has
\* fewer than `limit` matching transactions in the window of the
\* maxBlocksToCheck most recent blocks, every one of them is in the
\* returned list.
C23_EveryWindowTransactionReturned ==
    ( /\ Returned("fetchTransactionsFromBlockchain")
      /\ EveryFetchSucceeds
      /\ Cardinality(MatchingInWindow) < ScanCall.limit )
    => MatchingInWindow \subseteq ScanHashes

\* What the scan does inspect: the blocks at a multiple of blockStep below
\* the current block.  Under the same conditions every matching
\* transaction of those blocks is returned, and no other.
OnStride(n) == InWindow(n) /\ (ScanCall.world.currentBlock - n) % blockStep = 0
StridedWindowReturned ==
    ( /\ Returned("fetchTransactionsFromBlockchain")
      /\ EveryFetchSucceeds
      /\ Cardinality(MatchingInWindow) < ScanCall.limit )
    => ScanHashes = {h \in MatchingInWindow : OnStride(ScanCall.world.blockOf[h])}

\* the hashes whose receipt fetch does not fail
WithReceipt == {h \in Hashes : ScanCall.env.receipts[h] # "throw"}

\* the blocks the scan fetched successfully
InspectedBlocks == RequestedBlocks \ ScanCall.env.badBlocks

\* C24: a failed block fetch is skipped, never retried, and the scan goes
\* on with the next block; a failed receipt fetch omits only its own
\* transaction; a failed getBlockNumber yields the empty list; the scan
\* always returns a list.
C24_ScanFailuresAreSkipped ==
    Returned("fetchTransactionsFromBlockchain") =>
        /\ ScanReturn.transactions \in Seq(
              {ScanEntry(h, ScanCall.chainId, n, o) :
                  h \in Hashes, n \in RequestedBlocks, o \in {"ok", "null"}})
        /\ Cardinality(RequestedBlocks) = Len(ScanReturn.requested)
        /\ \A n \in RequestedBlocks \cap ScanCall.env.badBlocks :
              InWindow(n - blockStep) => (n - blockStep) \in RequestedBlocks
        /\ \A h \in Hashes :
              ScanCall.env.receipts[h] = "throw" => h \notin ScanHashes
        /\ \A h \in WithReceipt :
              ( /\ ScanCall.world.blockOf[h] \in InspectedBlocks
                /\ Involves(h, ScanCall.address)
                /\ Cardinality(WithReceipt) <= ScanCall.limit )
              => h \in ScanHashes
        /\ ~ScanCall.env.blockNumber => ScanReturn = NoScan

\* a scan whose first block fetch failed and whose first receipt fetch
\* failed has still returned the other transaction, found one step lower
C24_Witness ==
    /\ Returned("fetchTransactionsFromBlockchain")
    /\ ScanCall.world.currentBlock \in ScanCall.env.badBlocks
    /\ ScanCall.env.receipts["h1"] = "throw"
    /\ ScanCall.world.blockOf["h1"] = ScanCall.world.currentBlock - blockStep
    /\ ScanCall.world.blockOf["h2"] = ScanCall.world.currentBlock - blockStep
    /\ ScanHashes = {"h2"}
    /\ Len(ScanReturn.requested) = 2

\* C25: the scan issues at most maxBlocksToCheck / blockStep block
\* fetches, never asks for a negative block number, and issues no block
\* fetch once `limit` matching transactions have been collected.
C25_ScanIsBounded ==
    Returned("fetchTransactionsFromBlockchain") =>
        /\ Len(ScanReturn.requested) <= maxBlocksToCheck \div blockStep
        /\ \A k \in 1..Len(ScanReturn.requested) :
              /\ ScanReturn.requested[k].block >= 0
              /\ ScanReturn.requested[k].collected < ScanCall.limit

\* a scan of a chain higher than the window has walked the whole window
\* without reaching the limit
C25_Witness ==
    /\ Returned("fetchTransactionsFromBlockchain")
    /\ ScanCall.world.currentBlock = DeepHeight
    /\ Len(ScanReturn.requested) = maxBlocksToCheck \div blockStep
    /\ Len(ScanReturn.transactions) < ScanCall.limit

\* a scan has stopped at the first block because the limit was reached
ScanStoppedAtLimit ==
    /\ Returned("fetchTransactionsFromBlockchain")
    /\ ScanCall.world.currentBlock = DeepHeight
    /\ Len(ScanReturn.transactions) = ScanCall.limit
    /\ Len(ScanReturn.requested) = 1

----------------------------------------------------------------------------
(* C26: the same hash on two chains                                        *)

\* the data of an ingestion of a stored row's transaction on another chain
OnOtherChain(row, chainId) ==
    [row EXCEPT !.chainId = chainId, !.token = Some(row.token)]

\* C26: when a transaction hash is stored for one chain and the same hash
\* is ingested for a different chain, the second ingestion is not rejected
\* and a second row is stored.
C26_SameHashOnSecondChainAccepted ==
    \A row \in transactions, chainId \in ChainIds :
        ( /\ chainId # row.chainId
          /\ row.hash \in OnChain(chainId)
          /\ RowsWithKey(transactions, row.hash, chainId) = {} )
        => LET res == transactionUpsert(transactions, OnOtherChain(row, chainId))
           IN /\ res.ok
              /\ RowsWithKey(res.table, row.hash, chainId) # {}
              /\ RowsWithKey(res.table, row.hash, row.chainId) # {}

\* What the store does instead: no two rows ever share a hash, whatever
\* their chains.
HashStoredForOneChainOnly ==
    \A r1 \in transactions, r2 \in transactions :
        r1.hash = r2.hash => r1 = r2

----------------------------------------------------------------------------
(* C27: wallet rows                                                        *)

WalletsOf(table, address) == {w \in table : w.address = address}

\* every stored wallet address is lowercase and belongs to one row
WalletAddressesLowercaseUnique ==
    /\ \A w \in wallets : toLowerCase(w.address) = w.address
    /\ \A w1 \in wallets, w2 \in wallets : w1.address = w2.address => w1 = w2

\* a successful getBalance leaves one row for the lowercased address:
\* created if absent, its updatedAt refreshed if present
GetBalanceUpsertsWallet ==
    (Answers("getBalance") /\ lastResponse'.result.status = "ok") =>
        LET address == toLowerCase(lastResponse'.call.address)
            before == WalletsOf(wallets, address)
            after == WalletsOf(wallets', address)
        IN /\ Cardinality(after) = 1
           /\ wallets' \ after = wallets \ before
           /\ before = {} => after = {NewWallet(wallets, address)}
           /\ before # {} =>
                 \A w \in after :
                    /\ w.updatedAt = "refreshed"
                    /\ \E old \in before : w.id = old.id

\* C27: every successful getBalance(address) leaves exactly one wallet row
\* whose address is the lowercased input (created if absent, its update
\* timestamp refreshed if present); in every reachable state every stored
\* wallet address is lowercase and no two wallet rows share an address.
C27_OneLowercaseWalletPerAddress ==
    /\ []WalletAddressesLowercaseUnique
    /\ [][GetBalanceUpsertsWallet]_vars

\* getBalance of the checksummed address has succeeded on a store that
\* held the wallet, and the row of the lowercase address is refreshed
C27_Witness ==
    /\ lastResponse.op = "getBalance"
    /\ lastResponse.result.status = "ok"
    /\ lastResponse.call.address = AddrA
    /\ WalletsOf(wallets, toLowerCase(AddrA)) # {}
    /\ \A w \in WalletsOf(wallets, toLowerCase(AddrA)) : w.updatedAt = "refreshed"
    /\ transactions # {}

----------------------------------------------------------------------------
(* C28: the rows the core writes                                           *)

\* the rows a step inserts or rewrites
WrittenRows == transactions' \ transactions

\* the amounts ethers.formatEther produces for the modelled chain
EtherAmounts == {ChainTx(h).value : h \in Hashes}

\* C28: every transaction row written by syncTransactions, the background
\* sync or cacheTransaction has lowercased fromAddress and toAddress, its
\* amount stored as the decimal string that was fetched, and a walletId
\* of a wallet row that was stored before the write.
C28_WrittenRowsNormalized ==
    [][\A row \in WrittenRows :
          /\ toLowerCase(row.fromAddress) = row.fromAddress
          /\ toLowerCase(row.toAddress) = row.toAddress
          /\ row.amount \in EtherAmounts
          /\ row.amount = ChainTx(row.hash).value
          /\ IsSome(row.walletId)
          /\ \E w \in wallets : w.id = TheValue(row.walletId)]_vars

\* cacheTransaction has stored a transaction sent by the checksummed
\* address 0xAA under a wallet it created for the lowercase address
C28_Witness ==
    /\ lastResponse.op = "getTransactionByHash"
    /\ \E row \in transactions, w \in wallets :
          /\ ChainTx(row.hash).from = AddrA
          /\ row.fromAddress = toLowerCase(AddrA)
          /\ row.walletId = Some(w.id)
          /\ w.address = toLowerCase(AddrA)

----------------------------------------------------------------------------
(* C29: nothing is deleted                                                 *)

StoredKeys(table) == {<<r.hash, r.chainId>> : r \in table}
StoredAddresses(table) == {w.address : w \in table}

\* C29: across every step of getBalance, getTransactions,
\* getTransactionByHash, syncTransactions and the background syncs, the
\* set of stored (hash, chainId) keys and the set of stored wallet
\* addresses only grow or stay the same.
C29_StoredKeysOnlyGrow ==
    [][/\ StoredKeys(transactions) \subseteq StoredKeys(transactions')
       /\ StoredAddresses(wallets) \subseteq StoredAddresses(wallets')]_vars

\* both wallets and both transactions of the chain are stored, one of the
\* rows rewritten under the other wallet
C29_Witness ==
    /\ StoredAddresses(wallets) = {toLowerCase(AddrA), toLowerCase(AddrB)}
    /\ StoredKeys(transactions) = {<<"h1", Sepolia>>, <<"h2", Sepolia>>}
    /\ \E r1 \in transactions, r2 \in transactions : r1.walletId # r2.walletId

----------------------------------------------------------------------------
(* C30: the network lookup defaults to Sepolia                             *)

NetworkCall == lastResponse.call

\* the entry the claim says is used for a chain id
EntryFor(chainId) ==
    IF chainId \in {Mainnet, Sepolia}
    THEN NetworkCall.networks[chainId] ELSE NetworkCall.networks[Sepolia]

\* what the getter `op` reads from an entry
ReadBy(op, entry) ==
    CASE op = "getNetworkConfig" -> Some(entry)
      [] op \in {"getRpcUrl", "getProvider"} -> [threw |-> FALSE, value |-> entry.rpcUrl]
      [] op = "getEtherscanChainId" -> [threw |-> FALSE, value |-> entry.etherscanChainId]
      [] op = "getNetworkName" -> [threw |-> FALSE, value |-> entry.name]

\* C30: for every chain id other than 1 and 11155111 getNetworkConfig, and
\* with it getRpcUrl, getEtherscanChainId, getNetworkName and getProvider,
\* uses the Sepolia entry; for 1 and 11155111 it uses that chain's own
\* entry; the lookup never fails and leaves the configuration map as the
\* constructor built it.
C30_UnknownChainDefaultsToSepolia ==
    (lastResponse.op \in Getters /\ lastResponse.result.status = "ok") =>
        /\ lastResponse.result.value.value =
              ReadBy(lastResponse.op, EntryFor(NetworkCall.chainId))
        /\ lastResponse.result.value.networks = NetworkCall.networks
        /\ DOMAIN lastResponse.result.value.networks = {Mainnet, Sepolia}

\* getEtherscanChainId of an unsupported chain id has answered with
\* Sepolia's, on a map whose Sepolia URL comes from ETHEREUM_RPC_URL
C30_Witness ==
    /\ Returned("getEtherscanChainId")
    /\ NetworkCall.chainId = 137
    /\ NetworkCall.networks[Sepolia].rpcUrl = "https://rpc.example/ETHEREUM_RPC_URL"
    /\ lastResponse.result.value.value = [threw |-> FALSE, value |-> "11155111"]

----------------------------------------------------------------------------
(* C31: the route clamps limit and page                                    *)

RouteCall == lastResponse.call
Handed == lastResponse.result.value

\* the route has handed a query on to the service
RouteAccepted ==
    /\ Returned("WalletController.getTransactions")
    /\ Handed.status = 200

\* C31: for every query the route accepts, the values handed to
\* WalletService.getTransactions satisfy 1 <= limit <= 100 and page >= 1:
\* limit is min(query.limit, 100) when query.limit is positive and 20
\* otherwise, page is query.page when positive and 1 otherwise, and
\* chainId defaults to 11155111.
C31_RouteClampsLimitAndPage ==
    RouteAccepted =>
        /\ Handed.limit >= 1 /\ Handed.limit <= 100
        /\ Handed.page >= 1
        /\ IsSome(RouteCall.query.limit) =>
              LET n == TheValue(RouteCall.query.limit)
              IN Handed.limit = IF n > 0 THEN Min(n, 100) ELSE 20
        /\ RouteCall.query.limit = None => Handed.limit = 20
        /\ IsSome(RouteCall.query.page) =>
              LET n == TheValue(RouteCall.query.page)
              IN Handed.page = IF n > 0 THEN n ELSE 1
        /\ RouteCall.query.page = None => Handed.page = 1
        /\ RouteCall.query.chainId = None => Handed.chainId = Sepolia

\* the route has accepted a query asking for 1000 rows of page 0 and
\* handed on limit 100 and page 1 on the default chain
C31_Witness ==
    /\ RouteAccepted
    /\ RouteCall.query.limit = Some(1000)
    /\ RouteCall.query.page = Some(0)
    /\ RouteCall.query.chainId = None
    /\ Handed.limit = 100
    /\ Handed.page = 1
    /\ Handed.chainId = Sepolia

----------------------------------------------------------------------------
(* C32: a listed transaction stays listed                                  *)

\* the hashes of the rows getTransactions(address, chainId) reads: the
\* rows of the chain linked to the wallet row of the address
LinkedHashes(walletTable, table, address, chainId) ==
    {r.hash : r \in {row \in table :
        /\ row.chainId = chainId
        /\ \E w \in walletTable :
              w.address = address /\ row.walletId = Some(w.id)}}

\* C32: a transaction cached for wallet A and listed for A stays in A's
\* list across every later step, the syncs, background syncs and hash
\* lookups performed for another wallet included.
C32_ListedTransactionStaysListed ==
    [][\A address \in SyncTargets, chainId \in ChainIds :
          LinkedHashes(wallets, transactions, address, chainId)
              \subseteq LinkedHashes(wallets', transactions', address, chainId)]_vars

----------------------------------------------------------------------------
(* C33: an update without token info keeps the stored token columns        *)

\* the row has token fields
HasTokenFields(row) == IsSome(row.token.tokenContractAddress)

\* C33: when a cached transaction that has token fields is upserted again
\* by a write that carries no tokenTransfer, the stored token columns
\* (contract address, name, symbol, decimals, raw and formatted amount)
\* are unchanged and the non-token fields are those of the write.
C33_UpdateWithoutTokenKeepsColumns ==
    [][\A t \in Tasks :
          (WroteAgain(t) /\ TheValue(PostTask(t).lastWrite).token = None) =>
             LET data == TheValue(PostTask(t).lastWrite)
                 before == RowsWithKey(transactions, data.hash, data.chainId)
                 after == RowsWithKey(transactions', data.hash, data.chainId)
             IN \A old \in before : HasTokenFields(old) =>
                   \A row \in after :
                      /\ row.token.tokenContractAddress = old.token.tokenContractAddress
                      /\ row.token.tokenName = old.token.tokenName
                      /\ row.token.tokenSymbol = old.token.tokenSymbol
                      /\ row.token.tokenDecimals = old.token.tokenDecimals
                      /\ row.token.tokenAmount = old.token.tokenAmount
                      /\ row.token.tokenAmountFormatted = old.token.tokenAmountFormatted
                      /\ CarriesFields(row, data)]_vars

\* a background sync whose enrichment found no transfer has last written
\* a row that still has its token fields
C33_Witness ==
    \E task \in {tasks[t] : t \in Tasks} \cup {lastResponse.task} :
        /\ task.op = "syncTransactionsInBackground"
        /\ IsSome(task.lastWrite)
        /\ TheValue(task.lastWrite).token = None
        /\ \E row \in RowsWithKey(transactions, TheValue(task.lastWrite).hash,
                                  TheValue(task.lastWrite).chainId) :
              /\ HasTokenFields(row)
              /\ CarriesFields(row, TheValue(task.lastWrite))

----------------------------------------------------------------------------
(* C34: token info through the cache                                       *)

WrittenTransfer == TheValue(lastResponse.call.tx.tokenTransfer)
ReadBack == lastResponse.result.value

\* C34: for every tokenTransfer enrichment produces (tokenDecimals 0, an
\* empty name or symbol and raw amount 0 included), persisting it in a
\* sync and reading it back through getTransactions yields a tokenTransfer
\* with the same contractAddress, tokenName, tokenSymbol, tokenDecimals,
\* amount and amountFormatted.
C34_TokenInfoSurvivesRoundTrip ==
    Returned("roundTrip") =>
        /\ Len(ReadBack) = 1
        /\ ReadBack[1].tokenTransfer = Some(WrittenTransfer)

\* the values the round trip turns into undefined: '' and 0
EmptyString(o) == o = Some("")
Zero(o) == o = Some(0)

\* What the round trip does keep: contractAddress, amount and
\* amountFormatted always, and each of tokenName, tokenSymbol and
\* tokenDecimals unless it is '' or 0, which is read back as undefined.
RoundTripUpToFalsyValues ==
    Returned("roundTrip") =>
        /\ Len(ReadBack) = 1
        /\ LET tt == TheValue(ReadBack[1].tokenTransfer) IN
           /\ tt.contractAddress = WrittenTransfer.contractAddress
           /\ tt.amount = WrittenTransfer.amount
           /\ tt.amountFormatted = WrittenTransfer.amountFormatted
           /\ tt.tokenName = IF EmptyString(WrittenTransfer.tokenName) THEN None
                             ELSE WrittenTransfer.tokenName
           /\ tt.tokenSymbol = IF EmptyString(WrittenTransfer.tokenSymbol) THEN None
                               ELSE WrittenTransfer.tokenSymbol
           /\ tt.tokenDecimals = IF Zero(WrittenTransfer.tokenDecimals) THEN None
                                 ELSE WrittenTransfer.tokenDecimals

----------------------------------------------------------------------------
(* C35: a request served from the cache writes token columns only          *)

\* the row without its token columns
NonTokenFields(row) == [row EXCEPT !.token = NullToken]

\* this step is a getTransactions request that finds cached rows of the
\* wallet on the requested chain
FindsCachedRows ==
    /\ Answers("getTransactions")
    /\ lastResponse'.result.status = "ok"
    /\ CachedOf(lastResponse'.call.address, lastResponse'.call.chainId) # {}

\* the hashes of the page the request returns
PageHashes ==
    {lastResponse'.result.value.transactions[k].hash :
        k \in 1..Len(lastResponse'.result.value.transactions)}

LookupPair == lastResponse.result.value
SameAnswer(a, b) ==
    /\ a.hash = b.hash
    /\ a.value = b.value
    /\ a.blockNumber = b.blockNumber
    /\ a.gasUsed = b.gasUsed
    /\ a.gasPrice = b.gasPrice
    /\ a.timestamp = b.timestamp
    /\ a.status = b.status
    /\ toLowerCase(a.from) = toLowerCase(b.from)
    /\ toLowerCase(a.to) = toLowerCase(b.to)

\* C36: once getTransactionByHash has resolved a transaction on-chain and
\* cached it, the next getTransactionByHash for the same (hash, chainId) is
\* answered from the cached row and reports the same hash, value,
\* blockNumber, gasUsed, gasPrice, timestamp and status and the same from/to
\* addresses (compared without regard to letter case) as the first response.
C36_CachedLookupRepeatsFirstResponse ==
    Returned("lookupTwice") =>
        /\ LookupPair.cached
        /\ SameAnswer(LookupPair.first, TheValue(LookupPair.second))

\* the cached lookup repeats the first response in every field but gasPrice,
\* and in gasPrice too unless the gas price is zero
CachedLookupRepeatsUpToZeroGasPrice ==
    Returned("lookupTwice") =>
        /\ LookupPair.cached
        /\ LET first == LookupPair.first
               second == TheValue(LookupPair.second)
           IN /\ SameAnswer([first EXCEPT !.gasPrice = None],
                            [second EXCEPT !.gasPrice = None])
              /\ (first.gasPrice # Some("0")) => second.gasPrice = first.gasPrice
              /\ (first.gasPrice = Some("0")) => second.gasPrice = None

\* the cached response spells from/to in lower case, the first one as the
\* provider gave them
CachedLookupKeepsLetterCase ==
    Returned("lookupTwice") =>
        /\ LookupPair.first.from = TheValue(LookupPair.second).from
        /\ LookupPair.first.to = TheValue(LookupPair.second).to

\* ---- C37 ----
\* the list getTransactions builds from the store for (address, chainId)
StoredList(walletTable, table, address, chainId) ==
    LET found == walletFindUnique(walletTable, toLowerCase(address))
        rows == IF found = None THEN << >>
                ELSE WalletTransactions(table, TheValue(found).id, chainId)
    IN [k \in 1..Len(rows) |-> RowToResponse(rows[k])]

\* the hashes stored for the wallet of the request on the requested chain
RequestedChainHashes ==
    {r.hash : r \in CachedOf(lastResponse'.call.address, lastResponse'.call.chainId)}

\* slot t holds a sync or a hash lookup that takes this step
TaskActs(t) == tasks[t].op # "none" /\ tasks'[t] # tasks[t]

\* C37: getTransactions(address, chainId = c) returns only rows stored with
\* chainId c, and a step of a sync or of a hash lookup running for a chain
\* c' leaves the list stored for (address, c) unchanged for every chain c
\* other than c'.
C37_ChainsIsolatedInList ==
    [][/\ ( Answers("getTransactions") /\ lastResponse'.result.status = "ok" )
             => PageHashes \subseteq RequestedChainHashes
       /\ \A t \in Tasks : TaskActs(t) =>
             \A address \in SyncTargets, c \in ChainIds :
                 (c # tasks[t].chainId) =>
                     StoredList(wallets', transactions', address, c)
                         = StoredList(wallets, transactions, address, c)]_vars

\* one wallet has a stored list on both chains
C37_Witness ==
    \E address \in SyncTargets :
        \A c \in ChainIds : StoredList(wallets, transactions, address, c) # << >>

\* ---- C38 ----
Normalized == lastResponse.result.value
ReceiptSucceeded ==
    lastResponse.call.receipt = "ok" /\ lastResponse.call.tx.receiptStatus = 1

\* C38: the status of a normalized transaction is 'success' or 'failed'; for
\* the indexer fetch it is 'success' exactly when the record's isError flag
\* is '0'; for the block scan and the on-chain hash lookup it is 'success'
\* exactly when the receipt exists and its status is 1, and a transaction
\* whose receipt is absent is 'failed' with no gasUsed.
C38_StatusFromErrorFlagOrReceipt ==
    /\ Returned("indexer") =>
          /\ Normalized.status \in {"success", "failed"}
          /\ Normalized.status = "success" <=> lastResponse.call.tx.isError = "0"
    /\ ( Returned("scan") \/ Returned("lookup") ) =>
          /\ Normalized.status \in {"success", "failed"}
          /\ Normalized.status = "success" <=> ReceiptSucceeded
          /\ (lastResponse.call.receipt = "null") =>
                ( Normalized.status = "failed" /\ Normalized.gasUsed = None )

\* a scanned transaction whose receipt is absent has been normalized
C38_Witness ==
    /\ Returned("scan")
    /\ lastResponse.call.receipt = "null"
    /\ lastResponse.call.tx.receiptStatus = 1
    /\ Normalized.status = "failed"

\* ---- C39 ----
ScanList == ScanReturn.transactions

\* the block the chain holds the transaction in
FoundIn(hash) ==
    IF hash = CreationHash THEN ScanCall.world.creationBlock
    ELSE ScanCall.world.blockOf[hash]

\* C39: every transaction the block scan returns has a non-empty sender and
\* receiver, one of which is the scanned wallet address compared without
\* regard to letter case, carries the number and the timestamp of the block
\* it was found in, and appears once in the result; a transaction without a
\* receiver (a contract creation) is never returned.
C39_ScanReturnsWalletTransactionsOnce ==
    Returned("fetchTransactionsFromBlockchain") =>
        \A k \in 1..Len(ScanList) :
            LET tx == ScanList[k] IN
            /\ tx.from # ""
            /\ tx.to # ""
            /\ \/ toLowerCase(tx.from) = toLowerCase(ScanCall.address)
               \/ toLowerCase(tx.to) = toLowerCase(ScanCall.address)
            /\ tx.blockNumber = FoundIn(tx.hash)
            /\ tx.timestamp = BlockTimestamp(FoundIn(tx.hash))
            /\ \A j \in 1..Len(ScanList) : (j # k) => ScanList[j].hash # tx.hash
            /\ tx.hash # CreationHash

\* the scan inspected a block holding a contract creation sent by the
\* scanned address next to a transaction of that address, and returned the
\* latter
C39_Witness ==
    /\ Returned("fetchTransactionsFromBlockchain")
    /\ ScanCall.address = toLowerCase(ContractCreation.from)
    /\ ScanCall.world.creationBlock \in InspectedBlocks
    /\ \E k \in 1..Len(ScanList) :
          ScanList[k].blockNumber = ScanCall.world.creationBlock

====
